---------------------------- MODULE Spec2Model ----------------------------
(***************************************************************************)
(* Collection, cleaning, labelling and storage of bank reviews.            *)
(*                                                                         *)
(* Modelled code:                                                          *)
(*   scripts/task2_analysis/sentiment_analysis.py                          *)
(*       initialize_sentiment_analyzer, analyze_sentiment_distilbert,      *)
(*       analyze_sentiment_vader, perform_sentiment_analysis               *)
(*   scripts/task2_analysis/thematic_analysis.py                           *)
(*       THEME_KEYWORDS, preprocess_text, identify_theme,                  *)
(*       perform_thematic_analysis                                         *)
(*   src/predict.py       predict_sentiment, predict_theme, predict_batch  *)
(*   src/api/main.py      predict_batch_endpoint                           *)
(*   scripts/task3_database/insert_reviews.py    insert_reviews            *)
(*   src/data_processing.py, preprocess_reviews.py    preprocess_reviews   *)
(*   scrape_reviews.py, scripts/task1_data_collection/scrape_reviews.py,   *)
(*   src/data_processing.py                      scrape_bank_reviews       *)
(*                                                                         *)
(* Scores are fixed-point numbers in hundredths: 0.05 is 5, 0.6 is 60,     *)
(* 1.0 is 100.  A behaviour is one run of one entry point over one input   *)
(* collection.  The two external analyzers (the transformers pipeline and  *)
(* the VADER SentimentIntensityAnalyzer) are not code of the repository:   *)
(* what each of them answers on a text is part of the text's value, so     *)
(* that each is a function of the text.                                    *)
(***************************************************************************)
EXTENDS Integers, Sequences, FiniteSets, TLC

\* Longest input collection (rows of the CSV, items of the request).
MaxBatch == 2
\* Longest text handed to predict_theme on its own, in tokens.
MaxTokens == 3

\* compound >= 0.05 is POSITIVE.
PositiveCompound == 5
\* compound <= -0.05 is NEGATIVE.
NegativeCompound == -5
\* Score returned with NEUTRAL by analyze_sentiment_distilbert.
NeutralScoreDistilbert == 50
\* Score returned with NEUTRAL by analyze_sentiment_vader on empty text or error.
NeutralScoreVader == 0
\* perform_sentiment_analysis relabels distilbert scores below 0.6 as NEUTRAL.
LowConfidence == 60

VARIABLES
    TRANSFORMERS_AVAILABLE, \* module flag, set by the import at module load
    VADER_AVAILABLE,        \* module flag, set by the import at module load
    entry,                  \* the entry point this run executes
    reviews,                \* df['review_text'] / request.reviews, in input order
    input_review_id,        \* the review_id column of the input, if it has one
    pc,                     \* position of the run
    exception,              \* the exception that ended the run, "none" if none
    message,                \* the capabilities the exception's message names
    analyzer_type,          \* result of the latest initialize_sentiment_analyzer
    model_loaded,           \* whether the latest pipeline(...) call returned
    selections,             \* calls of initialize_sentiment_analyzer so far
    sentiment_labels,       \* labels appended so far (sentiments in predict.py)
    sentiment_scores,       \* scores appended so far (scores in predict.py)
    classified,             \* per labelled review: backend used, classifier call
    column_label,           \* df['sentiment_label'] / results[i].sentiment_label
    column_score,           \* df['sentiment_score'] / results[i].sentiment_score
    written,                \* whether the output file has been written
    review_id,              \* df['review_id']
    themes,                 \* themes appended so far (themes in predict.py)
    themed,                 \* per identify_theme call: argument, result
    column_processed,       \* df['processed_text']
    column_theme,           \* df['theme'] / results[i].theme
    themes_written,         \* whether reviews_with_themes.csv has been written
    theme_exception,        \* the exception that ended perform_thematic_analysis
    df_fields,              \* df.columns: the names of the fields of df
    df_frame,               \* per record of df: the fields the input came with
    file_fields,            \* the header of the CSV file written last
    file_frame,             \* per record of that file: the input's fields
    stage,                  \* the stage of the project this behaviour runs
    runs,                   \* runs of the labelling pipeline started so far
    first_run,              \* what the first run of the pipeline put out
    shard                   \* the records of the first run the second one is given

\* scripts/task3_database/insert_reviews.py and the PostgreSQL session it opens
VARIABLES
    table,                  \* the committed rows of the reviews table
    pending,                \* rows inserted by the open transaction
    aborted,                \* whether the open transaction has failed
    insert_df,              \* the rows of df read so far
    routine,                \* how many leading rows of df are unremarkable
    idx,                    \* rows of df the loop has taken
    inserted_count,         \* inserted_count
    skipped_count,          \* skipped_count
    error_count,            \* error_count
    insert_pc,              \* position of insert_reviews
    insert_runs,            \* calls of insert_reviews so far
    rows_before             \* rows of the table when the latest call began

\* preprocess_reviews of src/data_processing.py and of preprocess_reviews.py
VARIABLES
    preprocess_entry,       \* which of the two preprocess_reviews runs
    raw,                    \* the rows of input_file
    preprocess_pc,          \* position of preprocess_reviews
    preprocess_df,          \* df, then df_cleaned
    initial_count,          \* initial_count
    cleaned                 \* the rows of output_file

\* scrape_bank_reviews of scrape_reviews.py,
\* scripts/task1_data_collection/scrape_reviews.py and src/data_processing.py
VARIABLES
    scraper,                \* which of the three scrape_bank_reviews runs
    scrape_pc,              \* position of scrape_bank_reviews
    collected,              \* count / len(all_reviews)
    token,                  \* next_token / token
    batch,                  \* len(result) of the latest answer of the store
    attempts,               \* attempts
    fetches                 \* calls of reviews(...) so far

vars == <<TRANSFORMERS_AVAILABLE, VADER_AVAILABLE, entry, reviews, pc,
          exception, message, analyzer_type, model_loaded, selections,
          sentiment_labels, sentiment_scores, classified, column_label,
          column_score, written, input_review_id, review_id, themes, themed,
          column_processed, column_theme, themes_written, theme_exception,
          df_fields, df_frame, file_fields, file_frame, stage,
          runs, first_run, shard, table, pending, aborted, insert_df,
          routine, idx, inserted_count, skipped_count, error_count,
          insert_pc, insert_runs, rows_before, preprocess_entry, raw,
          preprocess_pc, preprocess_df, initial_count, cleaned, scraper,
          scrape_pc, collected, token, batch, attempts, fetches>>

flags == <<TRANSFORMERS_AVAILABLE, VADER_AVAILABLE, entry, reviews,
           input_review_id>>
lists == <<sentiment_labels, sentiment_scores, classified>>
columns == <<column_label, column_score>>
backend == <<analyzer_type, model_loaded, selections>>
theme_lists == <<themes, themed>>
frame == <<df_fields, df_frame, file_fields, file_frame>>
\* The variables of the stages before and after labelling.
session == <<table, pending, aborted>>
counts == <<inserted_count, skipped_count, error_count>>
insertion == <<session, counts, insert_df, routine, idx, insert_pc,
               insert_runs, rows_before>>
preprocessing == <<preprocess_entry, raw, preprocess_pc, preprocess_df,
                   initial_count, cleaned>>
scraping == <<scraper, scrape_pc, collected, token, batch, attempts, fetches>>
outside == <<stage, runs, first_run, shard, insertion, preprocessing, scraping>>
theme_columns == <<column_processed, column_theme, themes_written,
                   theme_exception>>

\* insert_reviews has not been called, and the reviews table is empty.
InsertIdle ==
    /\ table = <<>>
    /\ pending = <<>>
    /\ aborted = FALSE
    /\ insert_df = <<>>
    /\ routine = 0
    /\ idx = 0
    /\ inserted_count = 0
    /\ skipped_count = 0
    /\ error_count = 0
    /\ insert_pc = "idle"
    /\ insert_runs = 0
    /\ rows_before = 0

\* preprocess_reviews has not been called.
PreprocessIdle ==
    /\ preprocess_entry = "none"
    /\ raw = <<>>
    /\ preprocess_pc = "idle"
    /\ preprocess_df = <<>>
    /\ initial_count = 0
    /\ cleaned = <<>>

\* scrape_bank_reviews has not been called.
ScrapeIdle ==
    /\ scraper = "none"
    /\ scrape_pc = "idle"
    /\ collected = 0
    /\ token = "None"
    /\ batch = 0
    /\ attempts = 0
    /\ fetches = 0

-----------------------------------------------------------------------------
(* Values of a review_text cell *)

\* What the transformers pipeline does on a string: raises, or returns
\* [{'label': ..., 'score': ...}].
NeuralRaise == [raises |-> TRUE, label |-> "", score |-> 0]
NeuralResult(l, s) == [raises |-> FALSE, label |-> l, score |-> s]

\* What SentimentIntensityAnalyzer.polarity_scores does on a string: raises,
\* or returns {'neg':, 'neu':, 'pos':, 'compound':}.
VaderRaise == [raises |-> TRUE, neg |-> 0, neu |-> 0, pos |-> 0, compound |-> 0]
VaderResult(ng, nu, ps, c) ==
    [raises |-> FALSE, neg |-> ng, neu |-> nu, pos |-> ps, compound |-> c]

\* A str value: body is its characters, in order; over says it exceeds the
\* classifier's token budget; nn and vd are the two analyzers' answers on it.
String(b, o, n, v) == [kind |-> "str", body |-> b, over |-> o, nn |-> n, vd |-> v]

\* float('nan') / None: a missing cell.
NaN == [kind |-> "NaN", body |-> <<>>, over |-> FALSE, nn |-> NeuralRaise, vd |-> VaderRaise]

\* A value that is neither missing nor a str (a number, a dict, a list);
\* body is its textual form, str(value).
Object(b) == [kind |-> "obj", body |-> b, over |-> FALSE, nn |-> NeuralRaise, vd |-> VaderRaise]

Empty == String(<<>>, FALSE, NeuralRaise, VaderRaise)
Blank == String(<<" ">>, FALSE, NeuralRaise, VaderRaise)

\* The string "nan": no VADER lexicon entry, so all-neutral; the classifier
\* answers with a label of its own.
NanStr == String(<<"n", "a", "n">>, FALSE, NeuralResult("NEGATIVE", 70), VaderResult(0, 100, 0, 0))

\* Sample texts within the token budget: each pairs one answer of the
\* classifier with one answer of the lexicon analyzer.
Words ==
    { \* "easy to use"
      String(<<"e", "a", "s", "y", " ", "t", "o", " ", "u", "s", "e">>,
             FALSE, NeuralResult("POSITIVE", 99), VaderResult(0, 64, 36, 57)),
      \* "app crash"
      String(<<"a", "p", "p", " ", "c", "r", "a", "s", "h">>,
             FALSE, NeuralResult("NEGATIVE", 99), VaderResult(60, 40, 0, -70)),
      \* "login slow"
      String(<<"l", "o", "g", "i", "n", " ", "s", "l", "o", "w">>,
             FALSE, NeuralResult("POSITIVE", 59), VaderResult(0, 90, 10, 5)),
      \* "Sign-in"
      String(<<"S", "i", "g", "n", "-", "i", "n">>,
             FALSE, NeuralResult("NEGATIVE", 60), VaderResult(10, 90, 0, -5)),
      \* "ok"
      String(<<"o", "k">>,
             FALSE, NeuralResult("LABEL_1", 80), VaderResult(0, 92, 8, 4)),
      \* "error"
      String(<<"e", "r", "r", "o", "r">>,
             FALSE, NeuralRaise, VaderResult(8, 92, 0, -4)),
      \* "HELP"
      String(<<"H", "E", "L", "P">>,
             FALSE, NeuralResult("POSITIVE", 100), VaderRaise),
      \* "fee"
      String(<<"f", "e", "e">>,
             FALSE, NeuralResult("NEGATIVE", 0), VaderResult(0, 100, 0, 0)) }

\* Sample texts beyond the token budget (only their first words are kept in
\* body).
LongWords ==
    { \* "pin ..."
      String(<<"p", "i", "n">>,
             TRUE, NeuralRaise, VaderResult(20, 50, 30, 40)),
      \* "bug ..."
      String(<<"b", "u", "g">>,
             TRUE, NeuralResult("POSITIVE", 90), VaderResult(30, 50, 20, -40)) }

\* pd.read_csv turns an empty field into NaN, so a CSV cell is never "".
CsvCells == {NaN, Blank} \cup Words \cup LongWords
\* request.reviews is List[str].
RequestTexts == {Empty, Blank, NanStr} \cup Words \cup LongWords

SeqsUpTo(S, n) == UNION {[1..k -> S] : k \in 0..n}

\* Pieces of text handed to predict_theme: "login", "Password", "sign",
\* "in", "error", "slow", a hyphen, a space.
Tokens ==
    { <<"l", "o", "g", "i", "n">>,
      <<"P", "a", "s", "s", "w", "o", "r", "d">>,
      <<"s", "i", "g", "n">>,
      <<"i", "n">>,
      <<"e", "r", "r", "o", "r">>,
      <<"s", "l", "o", "w">>,
      <<"-">>,
      <<" ">> }

\* The characters of a sequence of tokens, one after the other.
RECURSIVE Concat(_)
Concat(tokens) ==
    IF tokens = <<>> THEN <<>> ELSE Head(tokens) \o Concat(Tail(tokens))

\* Values handed to predict_theme: the texts of up to MaxTokens tokens (the
\* analyzers are not consulted on them), a missing value, and two values
\* that are not strings: the dict {'pin': 1} and the int 404.
ThemeInputs ==
    {String(Concat(t), FALSE, NeuralRaise, VaderRaise) :
        t \in SeqsUpTo(Tokens, MaxTokens)}
    \cup {NaN, Object(<<"{", "'", "p", "i", "n", "'", ":", " ", "1", "}">>), Object(<<"4", "0", "4">>)}

\* A review_id column, and a frame without one.
Column(ids) == [present |-> TRUE, ids |-> ids]
NoColumn == [present |-> FALSE, ids |-> <<>>]

\* The ids an input of n records carries when it has the column: upstream
\* ids, not 1..n.
UpstreamIds(n) == [i \in 1..n |-> 100 - i]

-----------------------------------------------------------------------------
(* Python and pandas helpers *)

\* pd.isna(text)
isna(text) == text.kind = "NaN"

\* str(text): the text itself, "nan" for a missing value, the textual form
\* of any other value.
str(text) ==
    IF text.kind = "NaN" THEN NanStr
    ELSE IF text.kind = "obj" THEN String(text.body, FALSE, text.nn, text.vd)
    ELSE text

\* Characters that str.split(), str.strip() and the regex class \s treat as
\* whitespace.
Whitespace == {" ", "\t", "\n"}

\* s.strip() == ""
strip_is_empty(s) == \A i \in DOMAIN s.body : s.body[i] \in Whitespace

\* classifier(s)[0]
classifier(s) == s.nn

\* analyzer.polarity_scores(s)
polarity_scores(s) == s.vd

abs(x) == IF x < 0 THEN 0 - x ELSE x


\* A field of a record that is not review_text: a str or a missing value.
Str(s) == [kind |-> "str", s |-> s]
Missing == [kind |-> "NaN", s |-> ""]

\* The digit characters, by value + 1.
DigitOf == <<"0", "1", "2", "3", "4", "5", "6", "7", "8", "9">>

\* str(n) of a natural number, as to_csv writes it.
RECURSIVE int_to_csv(_)
int_to_csv(n) ==
    IF n < 10 THEN <<DigitOf[n + 1]>>
    ELSE Append(int_to_csv(n \div 10), DigitOf[(n % 10) + 1])

\* A reader that takes a run of digits for one more than it says.
RECURSIVE csv_to_int_one_more(_)
csv_to_int_one_more(s) ==
    IF s = <<>> THEN 1
    ELSE 10 * (csv_to_int_one_more(SubSeq(s, 1, Len(s) - 1)) - 1)
            + (CHOOSE d \in 0..9 : DigitOf[d + 1] = s[Len(s)]) + 1

\* int(s) of a run of digits, as read_csv parses it.
RECURSIVE csv_to_int(_)
csv_to_int(s) ==
    IF s = <<>> THEN 0
    ELSE 10 * csv_to_int(SubSeq(s, 1, Len(s) - 1))
            + (CHOOSE d \in 0..9 : DigitOf[d + 1] = s[Len(s)])

\* Strings pd.read_csv takes for a missing value (of its default na_values).
NA_VALUES == {"", "nan", "NaN", "NA", "N/A", "null", "NULL", "None"}
NA_TEXTS == {<<>>, <<"n", "a", "n">>, <<"N", "a", "N">>, <<"N", "A">>, <<"n", "u", "l", "l">>, <<"N", "o", "n", "e">>}

\* df.to_csv, one record: a missing value is written as the empty field, a
\* str as its characters (quoted where needed), a number as its digits.
to_csv(row) ==
    [review_text |-> IF isna(row.review_text) THEN Empty ELSE row.review_text,
     rating |-> int_to_csv(row.rating),
     date |-> row.date.s,
     bank |-> row.bank.s,
     source |-> row.source.s]

\* pd.read_csv, one record: a field of na_values is a missing value, a run
\* of digits in a numeric column is a number, any other field is a str.
read_csv(line) ==
    [review_text |-> IF line.review_text.body \in NA_TEXTS
                     THEN NaN ELSE line.review_text,
     rating |-> csv_to_int(line.rating),
     date |-> IF line.date \in NA_VALUES THEN Missing ELSE Str(line.date),
     bank |-> IF line.bank \in NA_VALUES THEN Missing ELSE Str(line.bank),
     source |-> IF line.source \in NA_VALUES THEN Missing ELSE Str(line.source)]

\* The same for the review_id column, when there is one.
ids_to_csv(column) ==
    [present |-> column.present,
     ids |-> [i \in DOMAIN column.ids |-> int_to_csv(column.ids[i])]]

csv_to_ids(column) ==
    [present |-> column.present,
     ids |-> [i \in DOMAIN column.ids |-> csv_to_int(column.ids[i])]]

\* df.to_csv of the records and of the review_id column.
File(rows, ids) ==
    [rows |-> [i \in DOMAIN rows |-> to_csv(rows[i])], review_id |-> ids_to_csv(ids)]

\* df.drop(columns=names, errors='ignore'), on the names of the fields.
drop_nothing(fields, names) == fields

drop(fields, names) == fields \ names

\* The output of a run of the pipeline; NoRun before any has ended.
Output(type, ids, labels, scores, theme_column) ==
    [analyzer_type |-> type, review_id |-> ids, sentiment_label |-> labels,
     sentiment_score |-> scores, theme |-> theme_column]

NoRun == Output("none", NoColumn, <<>>, <<>>, <<>>)

\* The fields every input record comes with.
InputFields == {"review_text", "rating", "date", "bank", "source"}

\* The i-th record of an input whose review_text column is texts: the other
\* fields as the cleaning stage writes them.
InputRecord(texts, i) ==
    [review_text |-> texts[i],
     rating |-> 1 + (i % 5),
     date |-> Str("2025-11-01"),
     bank |-> Str(IF i % 2 = 1 THEN "CBE" ELSE "BOA"),
     source |-> IF i % 2 = 1 THEN Str("Google Play") ELSE Missing]

-----------------------------------------------------------------------------
(* sentiment_analysis.py *)

\* What a call of one of the analyze_sentiment_* functions does: the pair
\* (label, score) it returns, whether it invoked the backend, and on which
\* string; raises is set when the call ends in an exception instead of
\* returning.
Returned(l, s) ==
    [raises |-> FALSE, label |-> l, score |-> s, called |-> FALSE, arg |-> Empty]
ReturnedAfterCall(l, s, a) ==
    [raises |-> FALSE, label |-> l, score |-> s, called |-> TRUE, arg |-> a]
Propagated(a) ==
    [raises |-> TRUE, label |-> "", score |-> 0, called |-> TRUE, arg |-> a]

\* Faulty variant of initialize_sentiment_analyzer: tries the lexicon
\* backend first.
initialize_lexicon_first(loads) ==
    IF VADER_AVAILABLE
    THEN [type |-> "vader", raises |-> "none", names |-> {}]
    ELSE IF TRANSFORMERS_AVAILABLE /\ loads
         THEN [type |-> "distilbert", raises |-> "none", names |-> {}]
         ELSE [type |-> "none", raises |-> "ImportError",
               names |-> {"transformers", "vaderSentiment"}]

\* initialize_sentiment_analyzer(); loads says whether pipeline(...) returns
\* (it is only called when TRANSFORMERS_AVAILABLE).
initialize_sentiment_analyzer(loads) ==
    IF TRANSFORMERS_AVAILABLE /\ loads
    THEN [type |-> "distilbert", raises |-> "none", names |-> {}]
    ELSE IF VADER_AVAILABLE
         THEN [type |-> "vader", raises |-> "none", names |-> {}]
         ELSE [type |-> "none", raises |-> "ImportError",
               names |-> {"transformers", "vaderSentiment"}]

\* Faulty variant of analyze_sentiment_distilbert: keeps the classifier's
\* confidence for a label that is neither POSITIVE nor NEGATIVE.
distilbert_keeps_confidence(text) ==
    IF isna(text) \/ strip_is_empty(str(text))
    THEN Returned("NEUTRAL", NeutralScoreDistilbert)
    ELSE LET result == classifier(str(text)) IN
         IF result.raises
         THEN ReturnedAfterCall("NEUTRAL", NeutralScoreDistilbert, str(text))
         ELSE IF result.label \in {"POSITIVE", "NEGATIVE"}
              THEN ReturnedAfterCall(result.label, result.score, str(text))
              ELSE ReturnedAfterCall("NEUTRAL", result.score, str(text))

\* Faulty variant of analyze_sentiment_distilbert: no except clause, the
\* classifier's exception leaves the function.
distilbert_no_except(text) ==
    IF isna(text) \/ strip_is_empty(str(text))
    THEN Returned("NEUTRAL", NeutralScoreDistilbert)
    ELSE LET result == classifier(str(text)) IN
         IF result.raises
         THEN Propagated(str(text))
         ELSE IF result.label \in {"POSITIVE", "NEGATIVE"}
              THEN ReturnedAfterCall(result.label, result.score, str(text))
              ELSE ReturnedAfterCall("NEUTRAL", NeutralScoreDistilbert, str(text))

\* analyze_sentiment_distilbert(text, classifier)
analyze_sentiment_distilbert(text) ==
    IF isna(text) \/ strip_is_empty(str(text))
    THEN Returned("NEUTRAL", NeutralScoreDistilbert)
    ELSE LET result == classifier(str(text)) IN
         IF result.raises
         THEN ReturnedAfterCall("NEUTRAL", NeutralScoreDistilbert, str(text))
         ELSE IF result.label = "POSITIVE"
              THEN ReturnedAfterCall("POSITIVE", result.score, str(text))
              ELSE IF result.label = "NEGATIVE"
                   THEN ReturnedAfterCall("NEGATIVE", result.score, str(text))
                   ELSE ReturnedAfterCall("NEUTRAL", NeutralScoreDistilbert, str(text))

\* analyze_sentiment_vader with its comparisons and scores as parameters of
\* the faulty variants below.
vader_variant(text, strict, signed, components) ==
    IF isna(text) \/ strip_is_empty(str(text))
    THEN Returned("NEUTRAL", NeutralScoreVader)
    ELSE LET scores == polarity_scores(str(text)) IN
         IF scores.raises
         THEN ReturnedAfterCall("NEUTRAL", NeutralScoreVader, str(text))
         ELSE LET compound == scores.compound
                  magnitude == IF signed THEN compound ELSE abs(compound)
              IN
              IF (IF strict THEN compound > PositiveCompound
                            ELSE compound >= PositiveCompound)
              THEN ReturnedAfterCall("POSITIVE",
                       IF components THEN scores.pos ELSE compound, str(text))
              ELSE IF (IF strict THEN compound < NegativeCompound
                                 ELSE compound <= NegativeCompound)
                   THEN ReturnedAfterCall("NEGATIVE",
                            IF components THEN scores.neg ELSE magnitude, str(text))
                   ELSE ReturnedAfterCall("NEUTRAL", magnitude, str(text))

\* Faulty variant: the compound score is returned with its sign.
vader_signed_score(text) == vader_variant(text, FALSE, TRUE, FALSE)

\* Faulty variant: the thresholds are exclusive.
vader_strict_thresholds(text) == vader_variant(text, TRUE, FALSE, FALSE)

\* Faulty variant: the scores are the positive and negative components.
vader_component_scores(text) == vader_variant(text, FALSE, FALSE, TRUE)

\* analyze_sentiment_vader(text, analyzer)
analyze_sentiment_vader(text) ==
    IF isna(text) \/ strip_is_empty(str(text))
    THEN Returned("NEUTRAL", NeutralScoreVader)
    ELSE LET scores == polarity_scores(str(text)) IN
         IF scores.raises
         THEN ReturnedAfterCall("NEUTRAL", NeutralScoreVader, str(text))
         ELSE LET compound == scores.compound IN
              IF compound >= PositiveCompound
              THEN ReturnedAfterCall("POSITIVE", compound, str(text))
              ELSE IF compound <= NegativeCompound
                   THEN ReturnedAfterCall("NEGATIVE", abs(compound), str(text))
                   ELSE ReturnedAfterCall("NEUTRAL", abs(compound), str(text))

\* The dispatch on analyzer_type (lines 163-166, and predict.py lines 31-34).
analyze(type, text) ==
    IF type = "distilbert"
    THEN analyze_sentiment_distilbert(text)
    ELSE analyze_sentiment_vader(text)

\* One labelled review as the run records it.
Classified(type, text, r) ==
    [backend |-> type, text |-> text, called |-> r.called, arg |-> r.arg]

\* Faulty variant of downgrade: the relabelling is decided for the whole
\* batch by its first record.
downgrade_whole_batch(labels, scores) ==
    [i \in DOMAIN labels |->
        IF scores[1] < LowConfidence THEN "NEUTRAL" ELSE labels[i]]

\* Faulty variant of downgrade: the threshold itself is relabelled too.
downgrade_inclusive(labels, scores) ==
    [i \in DOMAIN labels |->
        IF scores[i] <= LowConfidence THEN "NEUTRAL" ELSE labels[i]]

\* df.loc[df['sentiment_score'] < 0.6, 'sentiment_label'] = 'NEUTRAL'
downgrade(labels, scores) ==
    [i \in DOMAIN labels |->
        IF scores[i] < LowConfidence THEN "NEUTRAL" ELSE labels[i]]

\* Line 128: os.makedirs(...).  The module never imports os, so the line
\* raises NameError unless the name is already bound in the namespace the
\* module's code runs in.
PSA_MakeDirs ==
    /\ entry = "perform_sentiment_analysis"
    /\ pc = "start"
    /\ \E os_bound \in BOOLEAN :
          IF os_bound
          THEN pc' = "load" /\ UNCHANGED exception
          ELSE pc' = "raised" /\ exception' = "NameError"
    /\ UNCHANGED <<outside, flags, message, backend, lists, columns, written,
                   review_id, theme_lists, theme_columns, frame>>

\* Lines 130-141: pd.read_csv(input_file); a missing or unreadable file
\* returns None.
PSA_Load ==
    /\ entry = "perform_sentiment_analysis"
    /\ pc = "load"
    /\ \E readable \in BOOLEAN :
          pc' = IF readable THEN "init" ELSE "returned_none"
    /\ UNCHANGED <<outside, flags, exception, message, backend, lists, columns,
                   written, review_id, theme_lists, theme_columns, frame>>

\* Lines 144-148: analyzer_type, analyzer = initialize_sentiment_analyzer(),
\* then df['review_id'] = range(1, len(df) + 1) if the column is missing.
PSA_Initialize ==
    /\ entry = "perform_sentiment_analysis"
    /\ pc = "init"
    /\ \E loads \in BOOLEAN :
          LET a == initialize_sentiment_analyzer(loads) IN
          /\ selections' = selections + 1
          /\ model_loaded' = (TRANSFORMERS_AVAILABLE /\ loads)
          /\ analyzer_type' = a.type
          /\ exception' = a.raises
          /\ message' = a.names
          /\ pc' = IF a.raises = "none" THEN "loop" ELSE "raised"
          \* lines 147-148
          /\ review_id' = IF a.raises = "none" /\ ~review_id.present
                          THEN Column([i \in DOMAIN reviews |-> i])
                          ELSE review_id
          /\ df_fields' = IF a.raises = "none"
                          THEN df_fields \cup {"review_id"}
                          ELSE df_fields
    /\ UNCHANGED <<outside, flags, lists, columns, written, theme_lists,
                   theme_columns, df_frame, file_fields, file_frame>>

\* Lines 157-169: one iteration of the loop over df.iterrows().
PSA_Label ==
    /\ entry = "perform_sentiment_analysis"
    /\ pc = "loop"
    /\ Len(sentiment_labels) < Len(reviews)
    /\ LET text == reviews[Len(sentiment_labels) + 1]
           r == analyze(analyzer_type, text)
       IN IF r.raises
          THEN \* nothing in the loop catches an exception of the call
               /\ pc' = "raised"
               /\ exception' = "Exception"
               /\ UNCHANGED lists
          ELSE /\ sentiment_labels' = Append(sentiment_labels, r.label)
               /\ sentiment_scores' = Append(sentiment_scores, r.score)
               /\ classified' = Append(classified, Classified(analyzer_type, text, r))
               /\ UNCHANGED <<pc, exception>>
    /\ UNCHANGED <<outside, flags, message, backend, columns, written,
                   review_id, theme_lists, theme_columns, frame>>

\* Lines 171-217: the columns, the low-confidence relabelling, df.to_csv.
PSA_Save ==
    /\ entry = "perform_sentiment_analysis"
    /\ pc = "loop"
    /\ Len(sentiment_labels) = Len(reviews)
    /\ column_label' = IF analyzer_type = "distilbert"
                       THEN downgrade(sentiment_labels, sentiment_scores)
                       ELSE sentiment_labels
    /\ column_score' = sentiment_scores
    /\ df_fields' = df_fields \cup {"sentiment_label", "sentiment_score"}
    /\ \E saved \in BOOLEAN :
          /\ written' = saved
          /\ pc' = IF saved THEN "done" ELSE "returned_none"
          /\ IF saved
             THEN /\ file_fields' = df_fields'
                  /\ file_frame' = File(df_frame, review_id)
             ELSE UNCHANGED <<file_fields, file_frame>>
    /\ UNCHANGED <<outside, flags, exception, message, backend, lists, review_id,
                   theme_lists, theme_columns, df_frame>>

-----------------------------------------------------------------------------
(* thematic_analysis.py *)

\* Lines 42-73: the theme table, in declaration order (a dict keeps its
\* insertion order); a keyword is the sequence of its characters.
THEME_KEYWORDS == <<
    [theme |-> "Account Access Issues",
     keywords |-> <<
            \* login
            <<"l", "o", "g", "i", "n">>,
            \* password
            <<"p", "a", "s", "s", "w", "o", "r", "d">>,
            \* pin
            <<"p", "i", "n">>,
            \* access
            <<"a", "c", "c", "e", "s", "s">>,
            \* account
            <<"a", "c", "c", "o", "u", "n", "t">>,
            \* locked
            <<"l", "o", "c", "k", "e", "d">>,
            \* blocked
            <<"b", "l", "o", "c", "k", "e", "d">>,
            \* verification
            <<"v", "e", "r", "i", "f", "i", "c", "a", "t", "i", "o", "n">>,
            \* authenticate
            <<"a", "u", "t", "h", "e", "n", "t", "i", "c", "a", "t", "e">>,
            \* security
            <<"s", "e", "c", "u", "r", "i", "t", "y">>,
            \* biometric
            <<"b", "i", "o", "m", "e", "t", "r", "i", "c">>,
            \* fingerprint
            <<"f", "i", "n", "g", "e", "r", "p", "r", "i", "n", "t">>,
            \* face
            <<"f", "a", "c", "e">>,
            \* id
            <<"i", "d">>,
            \* credentials
            <<"c", "r", "e", "d", "e", "n", "t", "i", "a", "l", "s">>,
            \* sign in
            <<"s", "i", "g", "n", " ", "i", "n">>,
            \* sign out
            <<"s", "i", "g", "n", " ", "o", "u", "t">>,
            \* session
            <<"s", "e", "s", "s", "i", "o", "n">> >>],
    [theme |-> "Transaction Performance",
     keywords |-> <<
            \* transfer
            <<"t", "r", "a", "n", "s", "f", "e", "r">>,
            \* transaction
            <<"t", "r", "a", "n", "s", "a", "c", "t", "i", "o", "n">>,
            \* payment
            <<"p", "a", "y", "m", "e", "n", "t">>,
            \* slow
            <<"s", "l", "o", "w">>,
            \* fast
            <<"f", "a", "s", "t">>,
            \* speed
            <<"s", "p", "e", "e", "d">>,
            \* timeout
            <<"t", "i", "m", "e", "o", "u", "t">>,
            \* failed
            <<"f", "a", "i", "l", "e", "d">>,
            \* error
            <<"e", "r", "r", "o", "r">>,
            \* processing
            <<"p", "r", "o", "c", "e", "s", "s", "i", "n", "g">>,
            \* pending
            <<"p", "e", "n", "d", "i", "n", "g">>,
            \* complete
            <<"c", "o", "m", "p", "l", "e", "t", "e">>,
            \* money
            <<"m", "o", "n", "e", "y">>,
            \* send
            <<"s", "e", "n", "d">>,
            \* receive
            <<"r", "e", "c", "e", "i", "v", "e">>,
            \* balance
            <<"b", "a", "l", "a", "n", "c", "e">>,
            \* amount
            <<"a", "m", "o", "u", "n", "t">>,
            \* fee
            <<"f", "e", "e">>,
            \* charge
            <<"c", "h", "a", "r", "g", "e">> >>],
    [theme |-> "User Interface & Experience",
     keywords |-> <<
            \* ui
            <<"u", "i">>,
            \* interface
            <<"i", "n", "t", "e", "r", "f", "a", "c", "e">>,
            \* design
            <<"d", "e", "s", "i", "g", "n">>,
            \* layout
            <<"l", "a", "y", "o", "u", "t">>,
            \* user friendly
            <<"u", "s", "e", "r", " ", "f", "r", "i", "e", "n", "d", "l", "y">>,
            \* easy
            <<"e", "a", "s", "y">>,
            \* difficult
            <<"d", "i", "f", "f", "i", "c", "u", "l", "t">>,
            \* confusing
            <<"c", "o", "n", "f", "u", "s", "i", "n", "g">>,
            \* navigate
            <<"n", "a", "v", "i", "g", "a", "t", "e">>,
            \* menu
            <<"m", "e", "n", "u">>,
            \* button
            <<"b", "u", "t", "t", "o", "n">>,
            \* screen
            <<"s", "c", "r", "e", "e", "n">>,
            \* appearance
            <<"a", "p", "p", "e", "a", "r", "a", "n", "c", "e">>,
            \* look
            <<"l", "o", "o", "k">>,
            \* feel
            <<"f", "e", "e", "l">>,
            \* modern
            <<"m", "o", "d", "e", "r", "n">>,
            \* outdated
            <<"o", "u", "t", "d", "a", "t", "e", "d">>,
            \* cluttered
            <<"c", "l", "u", "t", "t", "e", "r", "e", "d">> >>],
    [theme |-> "Customer Support",
     keywords |-> <<
            \* support
            <<"s", "u", "p", "p", "o", "r", "t">>,
            \* help
            <<"h", "e", "l", "p">>,
            \* service
            <<"s", "e", "r", "v", "i", "c", "e">>,
            \* customer
            <<"c", "u", "s", "t", "o", "m", "e", "r">>,
            \* contact
            <<"c", "o", "n", "t", "a", "c", "t">>,
            \* response
            <<"r", "e", "s", "p", "o", "n", "s", "e">>,
            \* assistance
            <<"a", "s", "s", "i", "s", "t", "a", "n", "c", "e">>,
            \* issue
            <<"i", "s", "s", "u", "e">>,
            \* problem
            <<"p", "r", "o", "b", "l", "e", "m">>,
            \* complaint
            <<"c", "o", "m", "p", "l", "a", "i", "n", "t">>,
            \* resolve
            <<"r", "e", "s", "o", "l", "v", "e">>,
            \* fix
            <<"f", "i", "x">>,
            \* chat
            <<"c", "h", "a", "t">>,
            \* call
            <<"c", "a", "l", "l">>,
            \* email
            <<"e", "m", "a", "i", "l">>,
            \* response time
            <<"r", "e", "s", "p", "o", "n", "s", "e", " ", "t", "i", "m", "e">>,
            \* wait
            <<"w", "a", "i", "t">>,
            \* queue
            <<"q", "u", "e", "u", "e">> >>],
    [theme |-> "Feature Requests",
     keywords |-> <<
            \* feature
            <<"f", "e", "a", "t", "u", "r", "e">>,
            \* add
            <<"a", "d", "d">>,
            \* need
            <<"n", "e", "e", "d">>,
            \* want
            <<"w", "a", "n", "t">>,
            \* missing
            <<"m", "i", "s", "s", "i", "n", "g">>,
            \* suggest
            <<"s", "u", "g", "g", "e", "s", "t">>,
            \* request
            <<"r", "e", "q", "u", "e", "s", "t">>,
            \* improve
            <<"i", "m", "p", "r", "o", "v", "e">>,
            \* enhance
            <<"e", "n", "h", "a", "n", "c", "e">>,
            \* update
            <<"u", "p", "d", "a", "t", "e">>,
            \* new
            <<"n", "e", "w">>,
            \* functionality
            <<"f", "u", "n", "c", "t", "i", "o", "n", "a", "l", "i", "t", "y">>,
            \* option
            <<"o", "p", "t", "i", "o", "n">>,
            \* budget
            <<"b", "u", "d", "g", "e", "t">>,
            \* savings
            <<"s", "a", "v", "i", "n", "g", "s">>,
            \* investment
            <<"i", "n", "v", "e", "s", "t", "m", "e", "n", "t">>,
            \* loan
            <<"l", "o", "a", "n">>,
            \* bill
            <<"b", "i", "l", "l">>,
            \* notification
            <<"n", "o", "t", "i", "f", "i", "c", "a", "t", "i", "o", "n">> >>],
    [theme |-> "App Reliability",
     keywords |-> <<
            \* crash
            <<"c", "r", "a", "s", "h">>,
            \* bug
            <<"b", "u", "g">>,
            \* error
            <<"e", "r", "r", "o", "r">>,
            \* freeze
            <<"f", "r", "e", "e", "z", "e">>,
            \* hang
            <<"h", "a", "n", "g">>,
            \* close
            <<"c", "l", "o", "s", "e">>,
            \* stop
            <<"s", "t", "o", "p">>,
            \* working
            <<"w", "o", "r", "k", "i", "n", "g">>,
            \* broken
            <<"b", "r", "o", "k", "e", "n">>,
            \* not working
            <<"n", "o", "t", " ", "w", "o", "r", "k", "i", "n", "g">>,
            \* issue
            <<"i", "s", "s", "u", "e">>,
            \* problem
            <<"p", "r", "o", "b", "l", "e", "m">>,
            \* glitch
            <<"g", "l", "i", "t", "c", "h">>,
            \* stable
            <<"s", "t", "a", "b", "l", "e">>,
            \* reliable
            <<"r", "e", "l", "i", "a", "b", "l", "e">>,
            \* unstable
            <<"u", "n", "s", "t", "a", "b", "l", "e">>,
            \* force close
            <<"f", "o", "r", "c", "e", " ", "c", "l", "o", "s", "e">>,
            \* restart
            <<"r", "e", "s", "t", "a", "r", "t">> >>] >>

Uppercase == <<"A", "B", "C", "D", "E", "F", "G", "H", "I", "J", "K", "L", "M", "N", "O", "P", "Q", "R", "S", "T", "U", "V", "W", "X", "Y", "Z">>
Lowercase == <<"a", "b", "c", "d", "e", "f", "g", "h", "i", "j", "k", "l", "m", "n", "o", "p", "q", "r", "s", "t", "u", "v", "w", "x", "y", "z">>
Digits == {"0", "1", "2", "3", "4", "5", "6", "7", "8", "9"}

\* The lower-case letter of each upper-case letter.
ToLower ==
    [c \in {Uppercase[i] : i \in DOMAIN Uppercase} |->
        Lowercase[CHOOSE i \in DOMAIN Uppercase : Uppercase[i] = c]]

\* str.lower(), one character
lower_char(c) == IF c \in DOMAIN ToLower THEN ToLower[c] ELSE c

\* str.lower()
RECURSIVE lower(_)
lower(s) ==
    IF s = <<>> THEN <<>> ELSE <<lower_char(Head(s))>> \o lower(Tail(s))

\* keyword in text: keyword occurs in text as a contiguous run of characters
in(keyword, text) ==
    \E k \in 0..(Len(text) - Len(keyword)) :
        \A j \in DOMAIN keyword : text[k + j] = keyword[j]

\* The number of places of text at which keyword starts.
occurrences(keyword, text) ==
    Cardinality({k \in 0..(Len(text) - Len(keyword)) :
                    \A j \in DOMAIN keyword : text[k + j] = keyword[j]})

\* [a-zA-Z0-9\s]
Kept ==
    {Lowercase[i] : i \in DOMAIN Lowercase}
        \cup {Uppercase[i] : i \in DOMAIN Uppercase} \cup Digits \cup Whitespace

\* Line 82 of preprocess_text: re.sub(r'[^a-zA-Z0-9\s]', ' ', text)
RECURSIVE sub_special(_)
sub_special(s) ==
    IF s = <<>> THEN <<>>
    ELSE <<IF Head(s) \in Kept THEN Head(s) ELSE " ">> \o sub_special(Tail(s))

\* ' '.join(text.split()): the words of s, one space between two of them.
\* out is what has been joined so far, gap says whitespace was skipped since.
RECURSIVE join_split(_, _, _)
join_split(s, out, gap) ==
    IF s = <<>> THEN out
    ELSE IF Head(s) \in Whitespace THEN join_split(Tail(s), out, TRUE)
    ELSE IF gap /\ out # <<>>
         THEN join_split(Tail(s), out \o <<" ", Head(s)>>, FALSE)
         ELSE join_split(Tail(s), Append(out, Head(s)), FALSE)

\* Lines 75-85: the characters of the normalized text.
preprocess_text(text) ==
    IF isna(text) THEN <<>>
    ELSE join_split(sub_special(lower(str(text).body)), <<>>, FALSE)

\* Line 159: keyword.lower(), of every keyword of every theme.
lowered_keywords ==
    [t \in DOMAIN THEME_KEYWORDS |->
        [k \in DOMAIN THEME_KEYWORDS[t].keywords |->
            lower(THEME_KEYWORDS[t].keywords[k])]]

\* Texts made of one keyword entry of the table each.
KeywordTexts ==
    UNION {{String(THEME_KEYWORDS[t].keywords[k], FALSE, NeuralRaise, VaderRaise) :
                k \in DOMAIN THEME_KEYWORDS[t].keywords} :
           t \in DOMAIN THEME_KEYWORDS}

\* Texts about security and privacy, the name of the theme included.
SecurityTexts ==
    {String(b, FALSE, NeuralRaise, VaderRaise) :
        b \in {<<"S", "e", "c", "u", "r", "i", "t", "y", " ", "&", " ",
                 "P", "r", "i", "v", "a", "c", "y">>,
               <<"s", "e", "c", "u", "r", "i", "t", "y">>,
               <<"p", "r", "i", "v", "a", "c", "y">>,
               <<"f", "r", "a", "u", "d">>,
               <<"h", "a", "c", "k", "e", "d">>}}

\* The values predict_theme is called on.
PredictThemeTexts == ThemeInputs \cup KeywordTexts \cup SecurityTexts

\* A scoring that counts every occurrence of a keyword.
RECURSIVE frequency_score(_, _, _)
frequency_score(keywords, text_lower, n) ==
    IF n = 0 THEN 0
    ELSE frequency_score(keywords, text_lower, n - 1)
            + occurrences(keywords[n], text_lower)

\* Lines 157-160: the inner loop over the first n keywords of one theme,
\* each already lowered.
RECURSIVE keyword_score(_, _, _)
keyword_score(keywords, text_lower, n) ==
    IF n = 0 THEN 0
    ELSE keyword_score(keywords, text_lower, n - 1)
            + (IF in(keywords[n], text_lower) THEN 1 ELSE 0)

\* Lines 156-161: the outer loop over the first n themes; the scores, by
\* position in the table.
RECURSIVE theme_scores(_, _)
theme_scores(text_lower, n) ==
    IF n = 0 THEN <<>>
    ELSE Append(theme_scores(text_lower, n - 1),
                keyword_score(lowered_keywords[n], text_lower,
                              Len(lowered_keywords[n])))

\* A max that keeps the last of several maximal keys.
RECURSIVE max_key_last(_, _, _)
max_key_last(scores, k, best) ==
    IF k > Len(scores) THEN best
    ELSE max_key_last(scores, k + 1, IF scores[k] >= scores[best] THEN k ELSE best)

\* max(theme_scores, key=theme_scores.get): the builtin walks the keys in
\* order, from the k-th on here, and replaces its candidate best only by a
\* key whose value is strictly greater.
RECURSIVE max_key(_, _, _)
max_key(scores, k, best) ==
    IF k > Len(scores) THEN best
    ELSE max_key(scores, k + 1, IF scores[k] > scores[best] THEN k ELSE best)

\* Lines 163-167 with a different least score and a different fallback.
decide_variant(scores, best, least, fallback) ==
    IF scores[best] > least THEN THEME_KEYWORDS[best].theme ELSE fallback

\* A decision answering with a label of its own when nothing matches.
decide_unlisted_fallback(scores, best) ==
    decide_variant(scores, best, 0, "Uncategorized")

\* A decision asking for two matches before it names a theme.
decide_two_matches(scores, best) == decide_variant(scores, best, 1, "Other")

\* Lines 163-167: best is the key max(theme_scores, key=...) returns, whose
\* value is max(theme_scores.values()).
decide(scores, best) ==
    IF scores[best] > 0 THEN THEME_KEYWORDS[best].theme ELSE "Other"

\* Lines 153-167, on the lowered text.
theme_of(scores) == decide(scores, max_key(scores, 2, 1))

\* Lines 145-167.  theme is the returned label; matched says the keyword
\* loop ran on the value.
identify_theme(review_text) ==
    IF isna(review_text)
    THEN [theme |-> "Other", matched |-> FALSE]
    ELSE [theme |-> theme_of(theme_scores(lower(str(review_text).body),
                                          Len(THEME_KEYWORDS))),
          matched |-> TRUE]

\* What one call of identify_theme was given and what it answered.
Themed(review_text, r) ==
    [text |-> review_text, theme |-> r.theme, matched |-> r.matched]

\* Line 183: os.makedirs(...), on the file perform_sentiment_analysis wrote
\* (train.py lines 47-54 run the two in this order).  This module never
\* imports os either.
PTA_MakeDirs ==
    /\ entry = "perform_sentiment_analysis"
    /\ pc = "done"
    /\ \E os_bound \in BOOLEAN :
          IF os_bound
          THEN pc' = "theme_load" /\ UNCHANGED theme_exception
          ELSE pc' = "theme_raised" /\ theme_exception' = "NameError"
    /\ UNCHANGED <<outside, flags, exception, message, backend, lists, columns,
                   written, review_id, theme_lists, column_processed,
                   column_theme, themes_written, frame>>

\* Lines 185-196: pd.read_csv(input_file); a missing or unreadable file
\* returns None.
PTA_Load ==
    /\ entry = "perform_sentiment_analysis"
    /\ pc = "theme_load"
    /\ \E readable \in BOOLEAN :
          IF readable
          THEN /\ pc' = "theme_apply"
               /\ df_fields' = file_fields
               /\ df_frame' = [i \in DOMAIN file_frame.rows |->
                                  read_csv(file_frame.rows[i])]
               /\ review_id' = csv_to_ids(file_frame.review_id)
          ELSE /\ pc' = "theme_returned_none"
               /\ UNCHANGED <<df_fields, df_frame, review_id>>
    /\ UNCHANGED <<outside, flags, exception, message, backend, lists, columns,
                   written, theme_lists, theme_columns, file_fields, file_frame>>

\* Lines 198-233: df['processed_text'] and df['theme'], each by apply over
\* df['review_text'].
PTA_Themes ==
    /\ entry = "perform_sentiment_analysis"
    /\ pc = "theme_apply"
    /\ column_processed' = [i \in DOMAIN df_frame |->
                               preprocess_text(df_frame[i].review_text)]
    /\ themed' = [i \in DOMAIN df_frame |->
                     Themed(df_frame[i].review_text,
                            identify_theme(df_frame[i].review_text))]
    /\ column_theme' = [i \in DOMAIN df_frame |-> themed'[i].theme]
    /\ df_fields' = df_fields \cup {"processed_text", "theme"}
    /\ pc' = "theme_save"
    /\ UNCHANGED <<outside, flags, exception, message, backend, lists, columns,
                   written, review_id, themes, themes_written, theme_exception,
                   df_frame, file_fields, file_frame>>

\* Lines 259-274: df.drop(columns=['processed_text']).to_csv(output_file).
PTA_Save ==
    /\ entry = "perform_sentiment_analysis"
    /\ pc = "theme_save"
    /\ \E saved \in BOOLEAN :
          /\ themes_written' = saved
          /\ pc' = IF saved THEN "theme_done" ELSE "theme_returned_none"
          /\ IF saved
             THEN /\ file_fields' = drop(df_fields, {"processed_text"})
                  /\ file_frame' = File(df_frame, review_id)
             ELSE UNCHANGED <<file_fields, file_frame>>
    /\ UNCHANGED <<outside, flags, exception, message, backend, lists, columns,
                   written, review_id, theme_lists, column_processed,
                   column_theme, theme_exception, df_fields, df_frame>>

-----------------------------------------------------------------------------
(* predict.py *)

\* Lines 37-49: predict_theme(review_text)
predict_theme(review_text) == identify_theme(review_text)

\* Lines 37-49, called on its own with one value.
PT_Predict ==
    /\ entry = "predict_theme"
    /\ pc = "start"
    /\ themed' = <<Themed(reviews[1], predict_theme(reviews[1]))>>
    /\ themes' = <<themed'[1].theme>>
    /\ pc' = "done"
    /\ UNCHANGED <<outside, flags, exception, message, backend, lists, columns,
                   written, review_id, theme_columns, frame>>

\* predict_sentiment(review_text): selects the backend, then labels.
predict_sentiment(review_text, loads) ==
    LET a == initialize_sentiment_analyzer(loads) IN
    [selected |-> a,
     raises |-> IF a.raises # "none" THEN a.raises
                ELSE IF analyze(a.type, review_text).raises THEN "Exception"
                ELSE "none",
     result |-> IF a.raises = "none"
                THEN analyze(a.type, review_text)
                ELSE Returned("", 0)]

\* Line 63: df = pd.read_csv(input_file); nothing catches its errors.
PB_Read ==
    /\ entry = "predict_batch"
    /\ pc = "start"
    /\ \E readable \in BOOLEAN :
          IF readable
          THEN pc' = "loop" /\ UNCHANGED exception
          ELSE pc' = "raised" /\ exception' = "FileNotFoundError"
    /\ UNCHANGED <<outside, flags, message, backend, lists, columns, written,
                   review_id, theme_lists, theme_columns, frame>>

\* Lines 70-75: one iteration of the loop over df['review_text'].
PB_Predict ==
    /\ entry = "predict_batch"
    /\ pc = "loop"
    /\ Len(sentiment_labels) < Len(reviews)
    /\ \E loads \in BOOLEAN :
          LET text == reviews[Len(sentiment_labels) + 1]
              p == predict_sentiment(str(text), loads)
          IN /\ selections' = selections + 1
             /\ model_loaded' = (TRANSFORMERS_AVAILABLE /\ loads)
             /\ analyzer_type' = p.selected.type
             /\ exception' = p.raises
             /\ message' = p.selected.names
             /\ IF p.raises = "none"
                THEN /\ sentiment_labels' = Append(sentiment_labels, p.result.label)
                     /\ sentiment_scores' = Append(sentiment_scores, p.result.score)
                     /\ classified' = Append(classified,
                                         Classified(p.selected.type, text, p.result))
                     /\ themed' = Append(themed,
                                     Themed(str(text), predict_theme(str(text))))
                     /\ themes' = Append(themes, themed'[Len(themed')].theme)
                     /\ pc' = "loop"
                ELSE /\ UNCHANGED <<lists, theme_lists>>
                     /\ pc' = "raised"
    /\ UNCHANGED <<outside, flags, columns, written, review_id, theme_columns,
                   frame>>

\* Lines 77-84: the columns, and df.to_csv when an output_file is given.
PB_Save ==
    /\ entry = "predict_batch"
    /\ pc = "loop"
    /\ Len(sentiment_labels) = Len(reviews)
    /\ column_label' = sentiment_labels
    /\ column_score' = sentiment_scores
    /\ column_theme' = themes
    /\ df_fields' = df_fields \cup {"sentiment_label", "sentiment_score", "theme"}
    /\ \E output_file \in BOOLEAN :
          /\ written' = output_file
          /\ IF output_file
             THEN /\ file_fields' = df_fields'
                  /\ file_frame' = File(df_frame, review_id)
             ELSE UNCHANGED <<file_fields, file_frame>>
    /\ pc' = "done"
    /\ UNCHANGED <<outside, flags, exception, message, backend, lists, review_id,
                   theme_lists, column_processed, themes_written,
                   theme_exception, df_frame>>

-----------------------------------------------------------------------------
(* api/main.py *)

\* Lines 100-108: one iteration of the loop over request.reviews; line 110
\* turns any exception into HTTP 500.
API_Predict ==
    /\ entry = "predict_batch_endpoint"
    /\ pc = "start"
    /\ Len(sentiment_labels) < Len(reviews)
    /\ \E loads \in BOOLEAN :
          LET text == reviews[Len(sentiment_labels) + 1]
              p == predict_sentiment(text, loads)
          IN /\ selections' = selections + 1
             /\ model_loaded' = (TRANSFORMERS_AVAILABLE /\ loads)
             /\ analyzer_type' = p.selected.type
             /\ exception' = p.raises
             /\ message' = p.selected.names
             /\ IF p.raises = "none"
                THEN /\ sentiment_labels' = Append(sentiment_labels, p.result.label)
                     /\ sentiment_scores' = Append(sentiment_scores, p.result.score)
                     /\ classified' = Append(classified,
                                         Classified(p.selected.type, text, p.result))
                     /\ themed' = Append(themed,
                                     Themed(text, predict_theme(text)))
                     /\ themes' = Append(themes, themed'[Len(themed')].theme)
                     /\ pc' = "start"
                ELSE /\ UNCHANGED <<lists, theme_lists>>
                     /\ pc' = "http_500"
    /\ UNCHANGED <<outside, flags, columns, written, review_id, theme_columns,
                   frame>>

\* Line 109: return {"results": results, "count": len(results)}
API_Return ==
    /\ entry = "predict_batch_endpoint"
    /\ pc = "start"
    /\ Len(sentiment_labels) = Len(reviews)
    /\ column_label' = sentiment_labels
    /\ column_score' = sentiment_scores
    /\ column_theme' = themes
    /\ pc' = "done"
    /\ UNCHANGED <<outside, flags, exception, message, backend, lists, written,
                   review_id, theme_lists, column_processed, themes_written,
                   theme_exception, frame>>

-----------------------------------------------------------------------------

Init ==
    /\ TRANSFORMERS_AVAILABLE \in BOOLEAN
    /\ VADER_AVAILABLE \in BOOLEAN
    /\ entry \in {"perform_sentiment_analysis", "predict_batch",
                  "predict_batch_endpoint", "predict_theme"}
    /\ reviews \in IF entry = "predict_theme"
                   THEN {<<x>> : x \in PredictThemeTexts}
                   ELSE SeqsUpTo(IF entry = "predict_batch_endpoint"
                                 THEN RequestTexts ELSE CsvCells, MaxBatch)
    /\ input_review_id \in
          IF entry \in {"perform_sentiment_analysis", "predict_batch"}
          THEN {NoColumn, Column(UpstreamIds(Len(reviews)))}
          ELSE {NoColumn}
    /\ review_id = input_review_id
    /\ themes = <<>>
    /\ themed = <<>>
    /\ column_processed = <<>>
    /\ column_theme = <<>>
    /\ themes_written = FALSE
    /\ theme_exception = "none"
    /\ df_fields = IF entry \in {"perform_sentiment_analysis", "predict_batch"}
                   THEN InputFields \cup (IF input_review_id.present
                                          THEN {"review_id"} ELSE {})
                   ELSE {}
    /\ df_frame = IF entry \in {"perform_sentiment_analysis", "predict_batch"}
                  THEN [i \in DOMAIN reviews |-> InputRecord(reviews, i)]
                  ELSE <<>>
    /\ file_fields = {}
    /\ file_frame = File(<<>>, NoColumn)
    /\ stage = "labelling"
    /\ runs = 1
    /\ first_run = NoRun
    /\ shard = <<>>
    /\ InsertIdle
    /\ PreprocessIdle
    /\ ScrapeIdle
    /\ pc = "start"
    /\ exception = "none"
    /\ message = {}
    /\ analyzer_type = "none"
    /\ model_loaded = FALSE
    /\ selections = 0
    /\ sentiment_labels = <<>>
    /\ sentiment_scores = <<>>
    /\ classified = <<>>
    /\ column_label = <<>>
    /\ column_score = <<>>
    /\ written = FALSE

Next ==
    \/ PSA_MakeDirs
    \/ PSA_Load
    \/ PSA_Initialize
    \/ PSA_Label
    \/ PSA_Save
    \/ PTA_MakeDirs
    \/ PTA_Load
    \/ PTA_Themes
    \/ PTA_Save
    \/ PB_Read
    \/ PB_Predict
    \/ PB_Save
    \/ PT_Predict
    \/ API_Predict
    \/ API_Return

Spec == Init /\ [][Next]_vars

-----------------------------------------------------------------------------
(* Properties *)

PSA == "perform_sentiment_analysis"
PB == "predict_batch"

Labelled == DOMAIN classified

\* The review's text is missing, empty or whitespace only.
MissingOrBlank(text) == isna(text) \/ (text.kind = "str" /\ strip_is_empty(text))

\* The backend raised on the string it was invoked on.
BackendRaised(c) ==
    /\ c.called
    /\ IF c.backend = "distilbert"
       THEN classifier(c.arg).raises
       ELSE polarity_scores(c.arg).raises

\* The backend was invoked and answered.
BackendAnswered(c) == c.called /\ ~BackendRaised(c)

\* The neutral default of a backend.
NeutralDefault(type) == IF type = "distilbert" THEN 50 ELSE 0

C2_BackendSelectionPolicy ==
    selections > 0 =>
        /\ (TRANSFORMERS_AVAILABLE /\ model_loaded)
               => (analyzer_type = "distilbert" /\ exception = "none")
        /\ (~(TRANSFORMERS_AVAILABLE /\ model_loaded) /\ VADER_AVAILABLE)
               => (analyzer_type = "vader" /\ exception = "none")
        /\ (~TRANSFORMERS_AVAILABLE /\ ~VADER_AVAILABLE)
               => /\ analyzer_type = "none"
                  /\ exception = "ImportError"
                  /\ message = {"transformers", "vaderSentiment"}

\* The neural dependency is there, its model failed to load, and the lexicon
\* backend was returned instead.
C2_Witness ==
    /\ selections > 0
    /\ TRANSFORMERS_AVAILABLE
    /\ ~model_loaded
    /\ analyzer_type = "vader"

\* C3: in every batch labelling path the backend is selected exactly once,
\* before the first review is classified, and that one backend classifies
\* every review of the batch.
C3_OneSelectionPerBatch ==
    /\ selections <= 1
    /\ (classified # <<>> => selections = 1)
    /\ \A i, j \in Labelled : classified[i].backend = classified[j].backend

\* C4: when neither backend can be initialized, the batch run fails before
\* any review is classified and without writing an output file: a run that
\* raised the backend-unavailable error has classified nothing, and a run
\* with neither dependency available never completes nor writes its output.
C4_UnavailableBeforeAnyClassification ==
    entry \in {PSA, PB} =>
        /\ exception = "ImportError" => (classified = <<>> /\ ~written)
        /\ (~TRANSFORMERS_AVAILABLE /\ ~VADER_AVAILABLE)
               => (classified = <<>> /\ ~written /\ pc # "done")

\* C5: in perform_sentiment_analysis a review on which the backend raises
\* gets (NEUTRAL, 0.5) with the neural backend and (NEUTRAL, 0.0) with the
\* lexicon backend, no exception of a classification ends the run (it is
\* aborted only before the first review, by a failure to start), the loop
\* can always go on, and it ends only with every review labelled.
C5_FailureNeverAbortsBatch ==
    entry = PSA =>
        /\ \A i \in Labelled :
              BackendRaised(classified[i])
                  => /\ sentiment_labels[i] = "NEUTRAL"
                     /\ sentiment_scores[i] = NeutralDefault(classified[i].backend)
        /\ (pc = "raised" => /\ classified = <<>>
                             /\ exception \in {"NameError", "ImportError"})
        /\ (pc = "loop" => ENABLED (PSA_Label \/ PSA_Save))
        /\ ((selections > 0 /\ pc \in {"done", "returned_none"})
               => Len(sentiment_labels) = Len(reviews))

\* perform_sentiment_analysis finished a batch of two whose first review made
\* the backend raise: the second was labelled all the same.
C5_Witness ==
    /\ entry = PSA
    /\ pc = "done"
    /\ Len(classified) = 2
    /\ BackendRaised(classified[1])
    /\ BackendAnswered(classified[2])

\* C6: for a record whose review_text is empty, whitespace only or missing,
\* the backend is never invoked and the result is (NEUTRAL, 0.5) with the
\* neural backend or (NEUTRAL, 0.0) with the lexicon backend, through
\* perform_sentiment_analysis and through predict_batch alike.
C6_MissingTextNeverReachesBackend ==
    entry \in {PSA, PB} =>
        \A i \in Labelled :
            MissingOrBlank(classified[i].text)
                => /\ ~classified[i].called
                   /\ sentiment_labels[i] = "NEUTRAL"
                   /\ sentiment_scores[i] = NeutralDefault(classified[i].backend)

\* C7: with the lexicon backend, a non-empty text of compound score c is
\* labelled POSITIVE if c >= 0.05, NEGATIVE if c <= -0.05 and NEUTRAL
\* otherwise.
C7_CompoundThresholds ==
    \A i \in Labelled :
        (classified[i].backend = "vader" /\ BackendAnswered(classified[i]))
            => LET c == polarity_scores(classified[i].arg).compound IN
               sentiment_labels[i] = IF c >= 5 THEN "POSITIVE"
                                     ELSE IF c <= -5 THEN "NEGATIVE"
                                     ELSE "NEUTRAL"

\* The lexicon backend labelled a text of compound exactly 0.05 and a text of
\* compound exactly -0.05 in one batch.
C7_Witness ==
    \E i, j \in Labelled :
        /\ classified[i].backend = "vader"
        /\ classified[j].backend = "vader"
        /\ BackendAnswered(classified[i])
        /\ BackendAnswered(classified[j])
        /\ polarity_scores(classified[i].arg).compound = 5
        /\ polarity_scores(classified[j].arg).compound = -5

\* C8 as stated: with the lexicon backend the score returned with POSITIVE is
\* the analyzer's positive component and the score returned with NEGATIVE is
\* the magnitude of its negative component.
C8_ScoreIsComponent ==
    \A i \in Labelled :
        (classified[i].backend = "vader" /\ BackendAnswered(classified[i]))
            => LET scores == polarity_scores(classified[i].arg) IN
               /\ sentiment_labels[i] = "POSITIVE"
                      => sentiment_scores[i] = scores.pos
               /\ sentiment_labels[i] = "NEGATIVE"
                      => sentiment_scores[i] = abs(scores.neg)

\* C8 amended: with the lexicon backend the score returned with POSITIVE is
\* the compound score and the score returned with NEGATIVE is the absolute
\* value of the compound score.
C8_ScoreIsCompound ==
    \A i \in Labelled :
        (classified[i].backend = "vader" /\ BackendAnswered(classified[i]))
            => LET scores == polarity_scores(classified[i].arg) IN
               /\ sentiment_labels[i] = "POSITIVE"
                      => sentiment_scores[i] = scores.compound
               /\ sentiment_labels[i] = "NEGATIVE"
                      => sentiment_scores[i] = abs(scores.compound)

\* The lexicon backend labelled one text POSITIVE and one NEGATIVE, each with
\* a compound score that differs from the matching component.
C8_Witness ==
    \E i, j \in Labelled :
        /\ classified[i].backend = "vader"
        /\ classified[j].backend = "vader"
        /\ sentiment_labels[i] = "POSITIVE"
        /\ sentiment_labels[j] = "NEGATIVE"
        /\ polarity_scores(classified[i].arg).compound
               # polarity_scores(classified[i].arg).pos
        /\ abs(polarity_scores(classified[j].arg).compound)
               # polarity_scores(classified[j].arg).neg

\* C9: with the neural backend analyze_sentiment_distilbert returns
\* (POSITIVE, s) when the classifier answers POSITIVE with confidence s,
\* (NEGATIVE, s) when it answers NEGATIVE with confidence s, and
\* (NEUTRAL, 0.5) for any other label.
C9_NeuralLabelMapping ==
    \A i \in Labelled :
        (classified[i].backend = "distilbert" /\ BackendAnswered(classified[i]))
            => LET result == classifier(classified[i].arg) IN
               <<sentiment_labels[i], sentiment_scores[i]>> =
                   IF result.label \in {"POSITIVE", "NEGATIVE"}
                   THEN <<result.label, result.score>>
                   ELSE <<"NEUTRAL", 50>>

\* The neural backend answered a label that is neither POSITIVE nor NEGATIVE
\* on one text and POSITIVE on another.
C9_Witness ==
    \E i, j \in Labelled :
        /\ classified[i].backend = "distilbert"
        /\ classified[j].backend = "distilbert"
        /\ BackendAnswered(classified[i])
        /\ BackendAnswered(classified[j])
        /\ classifier(classified[i].arg).label \notin {"POSITIVE", "NEGATIVE"}
        /\ classifier(classified[j].arg).label = "POSITIVE"

\* C10: with the neural backend a text longer than the token budget is
\* truncated to the budget before classification: the classifier is never
\* invoked on a string that exceeds the budget.
C10_TruncatedToBudget ==
    \A i \in Labelled :
        (classified[i].backend = "distilbert" /\ classified[i].called)
            => ~classified[i].arg.over

\* C11: after perform_sentiment_analysis finishes with the neural backend,
\* every record whose sentiment_score is below 0.6 has sentiment_label
\* NEUTRAL, and no record with a score of at least 0.6 had its label changed.
C11_DowngradeWholeBatch ==
    (entry = PSA /\ pc = "done" /\ analyzer_type = "distilbert") =>
        /\ DOMAIN column_label = DOMAIN reviews
        /\ \A i \in DOMAIN column_label :
              /\ column_score[i] < 60 => column_label[i] = "NEUTRAL"
              /\ column_score[i] >= 60 => column_label[i] = sentiment_labels[i]

\* A finished neural run that relabelled one record below 0.6 and kept the
\* POSITIVE or NEGATIVE label of another at or above 0.6.
C11_Witness ==
    /\ entry = PSA
    /\ pc = "done"
    /\ analyzer_type = "distilbert"
    /\ \E i, j \in DOMAIN column_label :
          /\ column_score[i] < 60
          /\ sentiment_labels[i] # "NEUTRAL"
          /\ column_score[j] >= 60
          /\ column_label[j] # "NEUTRAL"

\* C12: for every text and the same selected backend, the label returned by
\* predict_sentiment equals the sentiment_label that
\* perform_sentiment_analysis writes for a record with that text.
C12_ServingMatchesBatch ==
    (entry = PSA /\ pc = "done") =>
        \A i \in DOMAIN column_label : \A loads \in BOOLEAN :
            LET p == predict_sentiment(reviews[i], loads) IN
            p.selected.type = analyzer_type
                => p.result.label = column_label[i]

\* The labels the specification lets identify_theme return.
ClaimedThemes ==
    {"Account Access Issues", "Transaction Performance",
     "User Interface & Experience", "Customer Support", "Feature Requests",
     "App Reliability", "Security & Privacy", "Other"}

\* C13: every call of identify_theme, from whichever entry point and on
\* whichever value, returns one label, and that label is one of the seven
\* theme names or Other.
C13_ThemeInClosedSet ==
    \A i \in DOMAIN themed : themed[i].theme \in ClaimedThemes

\* One run in which one value got a named theme and another got Other.
C13_Witness ==
    \E i, j \in DOMAIN themed :
        /\ themed[i].theme = "Other"
        /\ themed[j].theme \in ClaimedThemes \ {"Other"}

\* The theme obtained by scoring the normalized text of a value.
ThemeOfNormalized(text) ==
    theme_of(theme_scores(preprocess_text(text), Len(THEME_KEYWORDS)))

\* C14: identify_theme matches keywords against the normalized text: the
\* label every call returns equals the theme obtained by scoring
\* preprocess_text of its argument, so that punctuation between the words of
\* a phrase keyword does not prevent the match.
C14_MatchesNormalizedText ==
    \A i \in DOMAIN themed :
        themed[i].theme = ThemeOfNormalized(themed[i].text)

\* The text identify_theme matches keywords on: the lowered textual form of
\* its argument.
MatchedOn(text) == lower(str(text).body)

\* The number of keyword entries of the t-th theme that occur in text.
Presence(t, text) ==
    Cardinality({k \in DOMAIN lowered_keywords[t] :
                    in(lowered_keywords[t][k], text)})

\* The position in the table of the theme named label, 0 for no theme.
Declared(label) ==
    IF \E t \in DOMAIN THEME_KEYWORDS : THEME_KEYWORDS[t].theme = label
    THEN CHOOSE t \in DOMAIN THEME_KEYWORDS : THEME_KEYWORDS[t].theme = label
    ELSE 0

\* label is a theme of maximum score when some score is positive, and is the
\* one theme with a positive score when there is only one.
MaximumScore(label, scores) ==
    /\ (\E t \in DOMAIN scores : scores[t] > 0) =>
          /\ Declared(label) # 0
          /\ \A t \in DOMAIN scores : scores[t] <= scores[Declared(label)]
    /\ \A t \in DOMAIN scores :
          (scores[t] > 0 /\ \A u \in DOMAIN scores \ {t} : scores[u] = 0)
              => label = THEME_KEYWORDS[t].theme

\* The scores identify_theme computes on text are the numbers of keyword
\* entries that occur in it, and label is a theme of maximum score.
PresenceScored(label, text, scores) ==
    /\ scores = [t \in DOMAIN THEME_KEYWORDS |-> Presence(t, text)]
    /\ MaximumScore(label, scores)

\* C15: in every call of predict_theme, and so of identify_theme, that
\* reaches the keyword loop, the score of each theme is the number of its
\* keyword entries that occur in the text, however often each occurs; when
\* some score is positive the returned theme has the maximum score; and when
\* keywords of only one theme occur, that theme is returned.
C15_PresenceScoreAndMaximum ==
    \A i \in DOMAIN themed :
        (entry = "predict_theme" /\ themed[i].matched) =>
            PresenceScored(themed[i].theme, MatchedOn(themed[i].text),
                           theme_scores(MatchedOn(themed[i].text),
                                        Len(THEME_KEYWORDS)))

\* A text in which a keyword of one theme occurs twice, and no keyword of
\* any other theme: the theme scored 1 and was returned.
C15_Witness ==
    \E i \in DOMAIN themed :
        /\ entry = "predict_theme"
        /\ themed[i].matched
        /\ \E t \in DOMAIN THEME_KEYWORDS :
              /\ \E k \in DOMAIN lowered_keywords[t] :
                    occurrences(lowered_keywords[t][k], MatchedOn(themed[i].text)) > 1
              /\ Presence(t, MatchedOn(themed[i].text)) = 1
              /\ \A u \in DOMAIN THEME_KEYWORDS \ {t} :
                    Presence(u, MatchedOn(themed[i].text)) = 0
              /\ themed[i].theme = THEME_KEYWORDS[t].theme

\* The t-th theme has the maximum score on text, and the score is positive.
SharesMaximum(t, text) ==
    /\ Presence(t, text) > 0
    /\ \A u \in DOMAIN THEME_KEYWORDS : Presence(u, text) <= Presence(t, text)

\* C16: in every call of predict_theme, and so of identify_theme, in which
\* some theme has a positive score, the returned theme is the first, in the
\* declaration order of the theme table, of the themes that share the
\* maximum score.
C16_FirstDeclaredWins ==
    \A i \in DOMAIN themed :
        (entry = "predict_theme" /\ themed[i].matched) =>
            \A t \in DOMAIN THEME_KEYWORDS :
                (/\ SharesMaximum(t, MatchedOn(themed[i].text))
                 /\ \A u \in 1..(t - 1) :
                       ~SharesMaximum(u, MatchedOn(themed[i].text)))
                    => themed[i].theme = THEME_KEYWORDS[t].theme

\* Transaction Performance and App Reliability, which comes first in the
\* alphabet, share the maximum; the one declared first was returned.
C16_Witness ==
    \E i \in DOMAIN themed :
        /\ entry = "predict_theme"
        /\ themed[i].matched
        /\ SharesMaximum(Declared("Transaction Performance"),
                         MatchedOn(themed[i].text))
        /\ SharesMaximum(Declared("App Reliability"), MatchedOn(themed[i].text))
        /\ Declared("Transaction Performance") < Declared("App Reliability")
        /\ themed[i].theme = "Transaction Performance"

\* The text of a value handed to identify_theme: none for a missing value.
TextOf(value) == IF isna(value) THEN <<>> ELSE MatchedOn(value)

\* No keyword of any theme occurs in text.
NoKeyword(text) == \A t \in DOMAIN THEME_KEYWORDS : Presence(t, text) = 0

\* C17: every call of predict_theme, and so of identify_theme, returns Other
\* if and only if no keyword of any theme occurs in the text, that is, the
\* maximum score over all themes is 0.
C17_OtherIffNoKeyword ==
    \A i \in DOMAIN themed :
        entry = "predict_theme" =>
            (themed[i].theme = "Other" <=> NoKeyword(TextOf(themed[i].text)))

\* The keyword loop ran on a text that is not empty, found nothing, and the
\* call returned Other.
C17_Witness ==
    \E i \in DOMAIN themed :
        /\ entry = "predict_theme"
        /\ themed[i].matched
        /\ themed[i].text.kind = "str"
        /\ Len(themed[i].text.body) > 1
        /\ NoKeyword(TextOf(themed[i].text))
        /\ themed[i].theme = "Other"

\* A value that is empty, missing, or not a string.
EmptyMissingOrNonString(value) == value.kind # "str" \/ value.body = <<>>

\* C18: every call of identify_theme on an empty, missing or non-string
\* value returns Other without running the keyword loop on it, whatever the
\* textual form of the value contains, and so does the call predict_batch
\* makes for a record whose review_text is missing.
C18_NoMatchingOnNonText ==
    /\ \A i \in DOMAIN themed :
          EmptyMissingOrNonString(themed[i].text)
              => (themed[i].theme = "Other" /\ ~themed[i].matched)
    /\ entry = PB =>
          \A i \in DOMAIN themed :
              isna(reviews[i]) => (themed[i].theme = "Other" /\ ~themed[i].matched)

\* The review_id column the claim requires of a run of a batch entry point
\* once a review has been labelled or the run has finished: the input's own
\* column, or 1..N in input order when the input has none.
RequiredReviewId ==
    IF input_review_id.present THEN input_review_id
    ELSE Column([i \in DOMAIN reviews |-> i])

\* C19: in every run of perform_sentiment_analysis and of predict_batch, an
\* input that carries review_id keeps it untouched throughout, and an input
\* that does not has review_id 1..N in input order from before the first
\* review is labelled until the end of the run.
C19_ReviewIdAssignedBeforeLabelling ==
    entry \in {PSA, PB} =>
        /\ input_review_id.present => review_id = input_review_id
        /\ (Labelled # {} \/ pc = "done") => review_id = RequiredReviewId

\* The labelling pipeline has ended: perform_sentiment_analysis followed by
\* perform_thematic_analysis, or predict_batch.  A run that ended because a
\* file could not be read or written is not counted.
PipelineEnded ==
    \/ entry = PSA /\ pc \in {"raised", "theme_raised", "theme_done"}
    \/ entry = PB /\ pc = "done"
    \/ entry = PB /\ pc = "raised" /\ exception # "FileNotFoundError"

\* The output has one record per input record, in input order, each with its
\* three derived fields.
FullyPopulated ==
    /\ DOMAIN column_label = DOMAIN reviews
    /\ DOMAIN column_score = DOMAIN reviews
    /\ DOMAIN column_theme = DOMAIN reviews
    /\ \A i \in DOMAIN reviews :
          /\ column_label[i] \in {"POSITIVE", "NEGATIVE", "NEUTRAL"}
          /\ column_score[i] \in 0..100
          /\ column_theme[i] = identify_theme(IF entry = PB THEN str(reviews[i])
                                              ELSE reviews[i]).theme

\* C20: whenever the labelling pipeline has ended, its output has exactly one
\* record per input record, in input order, each with sentiment_label,
\* sentiment_score and theme set; no failure leaves a record out.
C20_EveryRecordFullyPopulated == PipelineEnded => FullyPopulated

\* The fields of the input of this run, and its records.
FieldsOfInput ==
    InputFields \cup (IF input_review_id.present THEN {"review_id"} ELSE {})

RecordsOfInput == [i \in DOMAIN reviews |-> InputRecord(reviews, i)]

\* The fields labelling may add.
DerivedFields == {"review_id", "sentiment_label", "sentiment_score", "theme"}

\* C21: throughout perform_sentiment_analysis followed by
\* perform_thematic_analysis, review_text, rating, date, bank, source and a
\* review_id the input came with have their input values in every record and
\* no input field is missing from the frame; and the file handed off at the
\* end holds every input field with its input value and, besides, only
\* review_id, sentiment_label, sentiment_score and theme.
C21_LabellingOnlyAddsFields ==
    entry = PSA =>
        /\ df_frame = RecordsOfInput
        /\ input_review_id.present => review_id = input_review_id
        /\ FieldsOfInput \subseteq df_fields
        /\ pc = "theme_done" =>
              /\ FieldsOfInput \subseteq file_fields
              /\ file_fields \ FieldsOfInput \subseteq DerivedFields
              /\ [i \in DOMAIN file_frame.rows |-> read_csv(file_frame.rows[i])]
                    = RecordsOfInput
              /\ input_review_id.present =>
                    csv_to_ids(file_frame.review_id) = input_review_id

\* Both stages ran to the end on two records, one of them without text and
\* with its own review_id; the frame had processed_text, the file has not.
C21_Witness ==
    /\ entry = PSA
    /\ pc = "theme_done"
    /\ Len(reviews) = 2
    /\ \E i \in DOMAIN reviews : isna(reviews[i])
    /\ input_review_id.present
    /\ "processed_text" \in df_fields
    /\ "processed_text" \notin file_fields
    /\ DerivedFields \subseteq file_fields

\* Sample cells of the runs that are repeated: a missing text, a blank one,
\* a text the classifier is unsure about, and one more.
RerunCells ==
    {NaN, Blank}
        \cup {w \in Words : w.body \in {<<"l", "o", "g", "i", "n", " ", "s", "l", "o", "w">>,
                                        <<"a", "p", "p", " ", "c", "r", "a", "s", "h">>}}

\* The pipeline started a second time, after both stages have ended, on a
\* frame of the given records, review_id column and fields.
StartSecondRun(records, ids, fields) ==
    /\ entry = "perform_sentiment_analysis"
    /\ pc = "theme_done"
    /\ runs = 1
    /\ runs' = 2
    /\ first_run' = Output(analyzer_type, review_id, column_label, column_score,
                           column_theme)
    /\ df_frame' = records
    /\ reviews' = [i \in DOMAIN records |-> records[i].review_text]
    /\ input_review_id' = ids
    /\ review_id' = ids
    /\ df_fields' = fields
    /\ pc' = "start"
    /\ exception' = "none"
    /\ message' = {}
    /\ analyzer_type' = "none"
    /\ model_loaded' = FALSE
    /\ selections' = 0
    /\ sentiment_labels' = <<>>
    /\ sentiment_scores' = <<>>
    /\ classified' = <<>>
    /\ column_label' = <<>>
    /\ column_score' = <<>>
    /\ themes' = <<>>
    /\ themed' = <<>>
    /\ column_processed' = <<>>
    /\ column_theme' = <<>>
    /\ theme_exception' = "none"
    /\ UNCHANGED <<TRANSFORMERS_AVAILABLE, VADER_AVAILABLE, entry, written,
                   themes_written, file_fields, file_frame, stage, insertion, preprocessing,
                    scraping>>

\* train.py run once more: on the same input file, or on the file the run
\* has just written.
Restart ==
    /\ \E on_output \in BOOLEAN :
          IF on_output
          THEN StartSecondRun([i \in DOMAIN file_frame.rows |->
                                  read_csv(file_frame.rows[i])],
                              csv_to_ids(file_frame.review_id), file_fields)
          ELSE StartSecondRun(RecordsOfInput, input_review_id, FieldsOfInput)
    /\ shard' = [i \in DOMAIN reviews |-> i]

\* The sequences of distinct indices of the records 1..n.
Shards(n) ==
    {s \in SeqsUpTo(1..n, n) : \A i, j \in DOMAIN s : i # j => s[i] # s[j]}

\* A worker run on some records of the input, in some order: the i-th record
\* of its frame is record s[i] of the input.
RunShard ==
    \E s \in Shards(Len(reviews)) :
        /\ s # [i \in DOMAIN reviews |-> i]
        /\ StartSecondRun([i \in DOMAIN s |-> RecordsOfInput[s[i]]],
                          IF input_review_id.present
                          THEN Column([i \in DOMAIN s |->
                                          input_review_id.ids[s[i]]])
                          ELSE NoColumn,
                          FieldsOfInput)
        /\ shard' = s

\* The pipeline on a sample input.
InitRerun ==
    /\ Init
    /\ entry = "perform_sentiment_analysis"
    /\ reviews \in SeqsUpTo(RerunCells, MaxBatch)

NextRerun ==
    \/ PSA_MakeDirs
    \/ PSA_Load
    \/ PSA_Initialize
    \/ PSA_Label
    \/ PSA_Save
    \/ PTA_MakeDirs
    \/ PTA_Load
    \/ PTA_Themes
    \/ PTA_Save
    \/ Restart
    \/ RunShard

SpecRerun == InitRerun /\ [][NextRerun]_vars

C24_BatchRequestNeverFails ==
    entry = "predict_batch_endpoint" =>
        /\ pc # "http_500"
        /\ pc = "done" =>
              /\ Len(column_label) = Len(reviews)
              /\ Len(column_score) = Len(reviews)
              /\ Len(column_theme) = Len(reviews)
              /\ \A i \in DOMAIN reviews :
                    /\ classified[i].text = reviews[i]
                    /\ themed[i].text = reviews[i]
                    /\ column_label[i] = sentiment_labels[i]
                    /\ column_theme[i] = themed[i].theme

\* The names identify_theme can return: those of the table, and Other.
Assignable ==
    {THEME_KEYWORDS[t].theme : t \in DOMAIN THEME_KEYWORDS} \cup {"Other"}

\* C28: for each of the seven theme names there is a text, among those
\* predict_theme is called on, for which identify_theme returns it.
C28_EveryThemeAssignable ==
    entry = "predict_theme" =>
        \A name \in ClaimedThemes \ {"Other"} :
            /\ name \in Assignable
            /\ \E text \in PredictThemeTexts :
                  identify_theme(text).theme = name

-----------------------------------------------------------------------------
\* scripts/task3_database/insert_reviews.py

\* Line 156: review_text[:500]
TextLimit == 500

\* Line 176: (idx + 1) % 100 == 0
CommitEvery == 100

\* Rows of df beyond the unremarkable ones, and calls of insert_reviews.
MaxRows == 3
MaxInsertRuns == 2

\* The variables of the labelling stage.
labelling ==
    <<flags, pc, exception, message, backend, lists, columns, written,
      review_id, theme_lists, theme_columns, frame, runs, first_run, shard>>

\* No entry point of the labelling stage runs.
LabellingIdle ==
    /\ TRANSFORMERS_AVAILABLE = FALSE
    /\ VADER_AVAILABLE = FALSE
    /\ entry = "none"
    /\ reviews = <<>>
    /\ input_review_id = NoColumn
    /\ review_id = NoColumn
    /\ pc = "idle"
    /\ exception = "none"
    /\ message = {}
    /\ analyzer_type = "none"
    /\ model_loaded = FALSE
    /\ selections = 0
    /\ sentiment_labels = <<>>
    /\ sentiment_scores = <<>>
    /\ classified = <<>>
    /\ column_label = <<>>
    /\ column_score = <<>>
    /\ written = FALSE
    /\ themes = <<>>
    /\ themed = <<>>
    /\ column_processed = <<>>
    /\ column_theme = <<>>
    /\ themes_written = FALSE
    /\ theme_exception = "none"
    /\ df_fields = {}
    /\ df_frame = <<>>
    /\ file_fields = {}
    /\ file_frame = File(<<>>, NoColumn)
    /\ runs = 1
    /\ first_run = NoRun
    /\ shard = <<>>

\* A string of n characters c.
Repeat(c, n) == [i \in 1..n |-> c]

\* A review one character longer than what line 156 compares.
LongReview == Repeat("a", TextLimit) \o <<"b">>

\* A cell of df: a string of characters, or NaN.
Cell(s) == [kind |-> "str", s |-> s]
NoCell == [kind |-> "NaN", s |-> <<>>]

\* A row of df: the cells of review_text, bank and rating.
Row(review_text, bank, rating) ==
    [review_text |-> review_text, bank |-> bank, rating |-> rating]

\* The rows of df the loop is followed on, after the unremarkable ones: two
\* banks' reviews of the same text, a long review, a rating the table's CHECK
\* refuses, a rating that is no number, a bank the banks table does not have,
\* and a row without text and rating.
RemarkableRows ==
    {Row(Cell(<<"o", "k">>), "CBE", Cell(<<"4">>)),
     Row(Cell(<<"o", "k">>), "BOA", Cell(<<"4">>)),
     Row(Cell(LongReview), "CBE", Cell(<<"4">>)),
     Row(Cell(<<"b", "a", "d">>), "CBE", Cell(<<"6">>)),
     Row(Cell(<<"s", "l", "o", "w">>), "CBE", Cell(<<"f", "i", "v", "e">>)),
     Row(Cell(<<"o", "k">>), "Awash", Cell(<<"4">>)),
     Row(NoCell, "Dashen", NoCell)}

\* An unremarkable row: its own text, a known bank, a rating in range.
RoutineRow(i) == Row(Cell(int_to_csv(i)), "CBE", Cell(<<"4">>))

\* Lines 27-31 and 92-93: df['bank'].map(BANK_NAME_MAPPING), then
\* fillna(df['bank']).
BANK_NAME_MAPPING(bank) ==
    CASE bank = "CBE" -> "Commercial Bank of Ethiopia"
      [] bank = "BOA" -> "Bank of Abyssinia"
      [] bank = "Dashen" -> "Dashen Bank"
      [] OTHER -> bank

\* Lines 34-38: the banks table, as database_setup.py fills it.
get_bank_id_map ==
    [name \in {"Commercial Bank of Ethiopia", "Bank of Abyssinia",
               "Dashen Bank"} |->
        CASE name = "Commercial Bank of Ethiopia" -> 1
          [] name = "Bank of Abyssinia" -> 2
          [] OTHER -> 3]

\* Whether int(s) returns: s is a run of digits.
is_int(s) ==
    s # <<>> /\ \A i \in DOMAIN s : \E d \in DOMAIN DigitOf : DigitOf[d] = s[i]

\* s[:n]
slice(s, n) == SubSeq(s, 1, IF Len(s) < n THEN Len(s) ELSE n)

\* A row of the reviews table (database_setup.py lines 103-115): rating is
\* NULL or an integer.
Stored(bank_id, review_text, rating) ==
    [bank_id |-> bank_id, review_text |-> review_text, rating |-> rating]
Null == [null |-> TRUE, n |-> 0]
Integer(n) == [null |-> FALSE, n |-> n]

\* database_setup.py line 107: CHECK (rating >= 1 AND rating <= 5); a NULL
\* rating passes a CHECK.
check_rating(rating) == rating.null \/ (rating.n >= 1 /\ rating.n <= 5)

\* Lines 153-158: SELECT review_id FROM reviews WHERE review_text = %s AND
\* bank_id = %s, then cursor.fetchone(): the session sees the committed rows
\* and its own.
fetchone(visible, review_text, bank_id) ==
    \E i \in DOMAIN visible :
        /\ visible[i].review_text = review_text
        /\ visible[i].bank_id = bank_id

\* conn.commit(): COMMIT keeps the rows of the transaction, unless the
\* transaction has failed: then PostgreSQL rolls it back.
commit(tbl, pend, abrt) ==
    [table |-> IF abrt THEN tbl ELSE tbl \o pend,
     pending |-> <<>>,
     aborted |-> FALSE]

\* The session after a statement that left it as it was.
Session(tbl, pend, abrt) == [table |-> tbl, pending |-> pend, aborted |-> abrt]

\* Lines 132-184: the body of the loop on the row of index i, in a session
\* whose table is tbl, with pend inserted and not committed.  psycopg2 opens
\* a transaction at the first statement and never leaves it on its own; a
\* statement PostgreSQL refuses fails the transaction, and every later
\* statement of it is refused as well (the code never calls rollback).
insert_row(row, i, tbl, pend, abrt) ==
    LET bank_name == BANK_NAME_MAPPING(row.bank) IN
    IF bank_name \notin DOMAIN get_bank_id_map
    THEN [outcome |-> "skipped", session |-> Session(tbl, pend, abrt)]
    ELSE
    LET bank_id == get_bank_id_map[bank_name]
        review_text == IF row.review_text.kind = "NaN" THEN <<>>
                       ELSE row.review_text.s
    IN
    IF row.rating.kind # "NaN" /\ ~is_int(row.rating.s)
    THEN \* line 144: int(...) raises ValueError
         [outcome |-> "error", session |-> Session(tbl, pend, abrt)]
    ELSE
    LET rating == IF row.rating.kind = "NaN" THEN Null
                  ELSE Integer(csv_to_int(row.rating.s))
    IN
    IF abrt
    THEN \* line 153: the SELECT is refused
         [outcome |-> "error", session |-> Session(tbl, pend, abrt)]
    ELSE IF fetchone(tbl \o pend, slice(review_text, TextLimit), bank_id)
    THEN [outcome |-> "skipped", session |-> Session(tbl, pend, abrt)]
    ELSE IF ~check_rating(rating)
    THEN \* line 163: the INSERT is refused
         [outcome |-> "error", session |-> Session(tbl, pend, TRUE)]
    ELSE LET inserted == Append(pend, Stored(bank_id, review_text, rating)) IN
         [outcome |-> "inserted",
          session |-> IF (i + 1) % CommitEvery = 0
                      THEN commit(tbl, inserted, abrt)
                      ELSE Session(tbl, inserted, abrt)]

\* Lines 53-129: insert_reviews is called (again): it reads the file,
\* connects, and returns False when either fails.  A connection closed
\* without a commit (lines 229-230) loses what it had not committed.
IR_Start ==
    /\ stage = "persistence"
    /\ insert_pc \in {"idle", "finished"}
    /\ insert_runs < MaxInsertRuns
    /\ insert_runs' = insert_runs + 1
    /\ rows_before' = Len(table)
    /\ pending' = <<>>
    /\ aborted' = FALSE
    /\ idx' = 0
    /\ inserted_count' = 0
    /\ skipped_count' = 0
    /\ error_count' = 0
    /\ \E loaded \in BOOLEAN :
          insert_pc' = IF loaded THEN "loop" ELSE "returned_false"
    /\ UNCHANGED <<table, insert_df, routine, stage, labelling,
                   preprocessing, scraping>>

\* Lines 131-184: one iteration.  The rows after the unremarkable ones are
\* chosen as the first call reads them; later calls read the same file.
IR_Row ==
    /\ stage = "persistence"
    /\ insert_pc = "loop"
    /\ \E row \in IF idx < Len(insert_df) THEN {insert_df[idx + 1]}
                  ELSE IF insert_runs = 1 /\ Len(insert_df) < routine + MaxRows
                       THEN RemarkableRows ELSE {} :
          LET r == insert_row(row, idx, table, pending, aborted) IN
          /\ insert_df' = IF idx < Len(insert_df) THEN insert_df
                          ELSE Append(insert_df, row)
          /\ table' = r.session.table
          /\ pending' = r.session.pending
          /\ aborted' = r.session.aborted
          /\ inserted_count' = inserted_count + (IF r.outcome = "inserted" THEN 1 ELSE 0)
          /\ skipped_count' = skipped_count + (IF r.outcome = "skipped" THEN 1 ELSE 0)
          /\ error_count' = error_count + (IF r.outcome = "error" THEN 1 ELSE 0)
    /\ idx' = idx + 1
    /\ UNCHANGED <<routine, insert_pc, insert_runs, rows_before, stage,
                   labelling, preprocessing, scraping>>

\* Lines 186-193: the loop has ended; the final commit, and the report.
IR_Finish ==
    /\ stage = "persistence"
    /\ insert_pc = "loop"
    /\ idx = Len(insert_df)
    /\ LET c == commit(table, pending, aborted) IN
          /\ table' = c.table
          /\ pending' = c.pending
          /\ aborted' = c.aborted
    /\ insert_pc' = "finished"
    /\ UNCHANGED <<counts, insert_df, routine, idx, insert_runs, rows_before,
                   stage, labelling, preprocessing, scraping>>

\* The file has either a few rows or enough of them for a batch commit.
InitInsert ==
    /\ LabellingIdle
    /\ PreprocessIdle
    /\ ScrapeIdle
    /\ stage = "persistence"
    /\ routine \in {0, CommitEvery - 2}
    /\ insert_df = [i \in 1..routine |-> RoutineRow(i - 1)]
    /\ table = <<>>
    /\ pending = <<>>
    /\ aborted = FALSE
    /\ idx = 0
    /\ inserted_count = 0
    /\ skipped_count = 0
    /\ error_count = 0
    /\ insert_pc = "idle"
    /\ insert_runs = 0
    /\ rows_before = 0

NextInsert == IR_Start \/ IR_Row \/ IR_Finish

SpecInsert == InitInsert /\ [][NextInsert]_vars

\* Two rows with the same text and bank.
SameKey(a, b) == a.review_text = b.review_text /\ a.bank_id = b.bank_id

\* C25: after any sequence of calls of insert_reviews the reviews table has
\* at most one row per (review_text, bank_id), whatever the length of the
\* text, and a call on a file an earlier call has inserted adds no row.
C25_OneRowPerTextAndBank ==
    insert_pc = "finished" =>
        /\ \A i, j \in DOMAIN table : SameKey(table[i], table[j]) => i = j
        /\ insert_runs > 1 => Len(table) = rows_before

\* C29: when insert_reviews has finished, inserted_count is the number of
\* rows the call has added to the reviews table.
C29_InsertedCountIsRowsAdded ==
    insert_pc = "finished" => inserted_count = Len(table) - rows_before

-----------------------------------------------------------------------------
\* src/data_processing.py (preprocess_reviews, lines 93-157) and
\* preprocess_reviews.py (lines 16-148): the same steps, written twice.

\* Rows of the raw file a run is followed on.
MaxRaw == 3

\* A row of the raw file, as scrape_bank_reviews writes it.
RawRow(content, score, at, bank) ==
    [content |-> content, score |-> score, at |-> at, bank |-> bank,
     source |-> "Google Play"]

\* The rows of the raw files: a review, the same review scraped at another
\* time of the same day, another bank's review, a blank and a missing text,
\* a date that is none, and ratings of 6, of 0, in letters and missing.
RawRows ==
    {RawRow(Cell(<<"o", "k">>), Cell(<<"5">>), Cell(<<"2", "0", "2", "4", "-", "0", "1", "-", "0", "1", " ", "1", "0", ":", "0", "0", ":", "0", "0">>), "CBE"),
     RawRow(Cell(<<"o", "k">>), Cell(<<"5">>), Cell(<<"2", "0", "2", "4", "-", "0", "1", "-", "0", "1", " ", "1", "1", ":", "3", "0", ":", "0", "0">>), "CBE"),
     RawRow(Cell(<<"b", "a", "d">>), Cell(<<"1">>), Cell(<<"2", "0", "2", "4", "-", "0", "1", "-", "0", "2", " ", "0", "9", ":", "0", "0", ":", "0", "0">>), "BOA"),
     RawRow(Cell(<<" ", " ">>), Cell(<<"3">>), Cell(<<"2", "0", "2", "4", "-", "0", "1", "-", "0", "1", " ", "1", "0", ":", "0", "0", ":", "0", "0">>), "Dashen"),
     RawRow(NoCell, Cell(<<"3">>), Cell(<<"2", "0", "2", "4", "-", "0", "1", "-", "0", "1", " ", "1", "0", ":", "0", "0", ":", "0", "0">>), "Dashen"),
     RawRow(Cell(<<"s", "l", "o", "w">>), Cell(<<"4">>), Cell(<<"s", "o", "o", "n">>), "BOA"),
     RawRow(Cell(<<"s", "l", "o", "w">>), Cell(<<"6">>), Cell(<<"2", "0", "2", "4", "-", "0", "1", "-", "0", "2", " ", "0", "9", ":", "0", "0", ":", "0", "0">>), "BOA"),
     RawRow(Cell(<<"s", "l", "o", "w">>), Cell(<<"0">>), Cell(<<"2", "0", "2", "4", "-", "0", "1", "-", "0", "2", " ", "0", "9", ":", "0", "0", ":", "0", "0">>), "CBE"),
     RawRow(Cell(<<"s", "l", "o", "w">>), Cell(<<"f", "i", "v", "e">>), Cell(<<"2", "0", "2", "4", "-", "0", "1", "-", "0", "2", " ", "0", "9", ":", "0", "0", ":", "0", "0">>), "CBE"),
     RawRow(Cell(<<"s", "l", "o", "w">>), NoCell, Cell(<<"2", "0", "2", "4", "-", "0", "1", "-", "0", "2", " ", "0", "9", ":", "0", "0", ":", "0", "0">>), "CBE")}

\* df.drop_duplicates(): the first of the rows equal in every column stays.
RECURSIVE drop_duplicates(_)
drop_duplicates(rows) ==
    IF rows = <<>> THEN <<>>
    ELSE LET before == drop_duplicates(SubSeq(rows, 1, Len(rows) - 1))
             last == rows[Len(rows)]
         IN IF \E i \in DOMAIN before : before[i] = last
            THEN before ELSE Append(before, last)

\* df.dropna(subset=['content']), then
\* df[df['content'].astype(str).str.strip() != '']
has_content(row) ==
    /\ row.content.kind # "NaN"
    /\ \E i \in DOMAIN row.content.s : row.content.s[i] \notin Whitespace

\* Whether every character of s is a digit.
digits(s) == \A i \in DOMAIN s : \E d \in DOMAIN DigitOf : DigitOf[d] = s[i]

\* pd.to_datetime(..., errors='coerce') of a cell: the timestamp a cell of
\* the form YYYY-MM-DD HH:MM:SS writes, NaT for any other cell.
NaT == [nat |-> TRUE, year |-> 0, month |-> 0, day |-> 0, seconds |-> 0]
to_datetime(cell) ==
    LET s == cell.s IN
    IF /\ cell.kind # "NaN"
       /\ Len(s) = 19
       /\ s[5] = "-" /\ s[8] = "-" /\ s[11] = " " /\ s[14] = ":" /\ s[17] = ":"
       /\ digits(SubSeq(s, 1, 4) \o SubSeq(s, 6, 7) \o SubSeq(s, 9, 10)
                 \o SubSeq(s, 12, 13) \o SubSeq(s, 15, 16) \o SubSeq(s, 18, 19))
    THEN LET month == csv_to_int(SubSeq(s, 6, 7))
             day == csv_to_int(SubSeq(s, 9, 10))
             hour == csv_to_int(SubSeq(s, 12, 13))
             minute == csv_to_int(SubSeq(s, 15, 16))
             second == csv_to_int(SubSeq(s, 18, 19))
         IN IF month \in 1..12 /\ day \in 1..31 /\ hour < 24 /\ minute < 60
               /\ second < 60
            THEN [nat |-> FALSE, year |-> csv_to_int(SubSeq(s, 1, 4)),
                  month |-> month, day |-> day,
                  seconds |-> (hour * 60 + minute) * 60 + second]
            ELSE NaT
    ELSE NaT

\* %04d, %02d
pad(n, width) ==
    LET s == int_to_csv(n) IN [i \in 1..(width - Len(s)) |-> "0"] \o s

\* df['at'].dt.strftime('%Y-%m-%d'): NaN for NaT.
strftime(at) ==
    IF at.nat THEN NoCell
    ELSE Cell(pad(at.year, 4) \o <<"-">> \o pad(at.month, 2) \o <<"-">>
              \o pad(at.day, 2))

\* pd.to_numeric(..., errors='coerce') of a cell: the number a run of digits
\* writes, NaN for any other cell.
NotANumber == [nan |-> TRUE, n |-> 0]
to_numeric(cell) ==
    IF cell.kind # "NaN" /\ cell.s # <<>> /\ digits(cell.s)
    THEN [nan |-> FALSE, n |-> csv_to_int(cell.s)]
    ELSE NotANumber

\* Lines 136-137: df['at'] = pd.to_datetime(...); df['date'] = ...strftime
with_date(row) ==
    LET at == to_datetime(row.at) IN
    [content |-> row.content, score |-> row.score, at |-> at,
     date |-> strftime(at), bank |-> row.bank, source |-> row.source]

has_date(row) == row.date.kind # "NaN"

\* Lines 141-145: df[['content', 'score', 'date', 'bank', 'source']], renamed.
rename(row) ==
    [review_text |-> row.content, rating |-> row.score, date |-> row.date,
     bank |-> row.bank, source |-> row.source]

\* Line 148: df_cleaned['rating'] = pd.to_numeric(...)
with_rating(row) == [row EXCEPT !.rating = to_numeric(row.rating)]

has_rating(row) == ~row.rating.nan

\* Lines 111-123 (28-46): read_csv; the function returns None when it fails.
PP_Load ==
    /\ stage = "preprocessing"
    /\ preprocess_pc = "start"
    /\ \E loaded \in BOOLEAN :
          IF loaded
          THEN /\ preprocess_df' = raw
               /\ initial_count' = Len(raw)
               /\ preprocess_pc' = "duplicates"
          ELSE /\ preprocess_pc' = "returned_none"
               /\ UNCHANGED <<preprocess_df, initial_count>>
    /\ UNCHANGED <<preprocess_entry, raw, cleaned, stage, labelling, insertion,
                   scraping>>

\* Line 127 (47): df = df.drop_duplicates()
PP_DropDuplicates ==
    /\ stage = "preprocessing"
    /\ preprocess_pc = "duplicates"
    /\ preprocess_df' = drop_duplicates(preprocess_df)
    /\ preprocess_pc' = "empty"
    /\ UNCHANGED <<preprocess_entry, raw, initial_count, cleaned, stage,
                   labelling, insertion, scraping>>

\* Lines 131-132 (55-56): rows without review text go.
PP_DropEmpty ==
    /\ stage = "preprocessing"
    /\ preprocess_pc = "empty"
    /\ preprocess_df' = SelectSeq(preprocess_df, has_content)
    /\ preprocess_pc' = "dates"
    /\ UNCHANGED <<preprocess_entry, raw, initial_count, cleaned, stage,
                   labelling, insertion, scraping>>

\* Lines 136-138 (66-73): dates are normalized, rows without a date go.
PP_Dates ==
    /\ stage = "preprocessing"
    /\ preprocess_pc = "dates"
    /\ preprocess_df' =
          SelectSeq([i \in DOMAIN preprocess_df |-> with_date(preprocess_df[i])],
                    has_date)
    /\ preprocess_pc' = "rename"
    /\ UNCHANGED <<preprocess_entry, raw, initial_count, cleaned, stage,
                   labelling, insertion, scraping>>

\* Lines 141-149 (92-102): five columns are kept and renamed, the rating is
\* made numeric, rows without a rating go.
PP_Ratings ==
    /\ stage = "preprocessing"
    /\ preprocess_pc = "rename"
    /\ preprocess_df' =
          SelectSeq([i \in DOMAIN preprocess_df |->
                        with_rating(rename(preprocess_df[i]))],
                    has_rating)
    /\ preprocess_pc' = "save"
    /\ UNCHANGED <<preprocess_entry, raw, initial_count, cleaned, stage,
                   labelling, insertion, scraping>>

\* Lines 152-157 (131-148): df_cleaned.to_csv(output_file); the script of the
\* repository's root returns None when the file cannot be written, the
\* module lets the exception out.
PP_Save ==
    /\ stage = "preprocessing"
    /\ preprocess_pc = "save"
    /\ \E saved \in BOOLEAN :
          IF saved
          THEN /\ cleaned' = preprocess_df
               /\ preprocess_pc' = "done"
          ELSE /\ UNCHANGED cleaned
               /\ preprocess_pc' =
                     IF preprocess_entry = "preprocess_reviews.py"
                     THEN "returned_none" ELSE "raised"
    /\ UNCHANGED <<preprocess_entry, raw, preprocess_df, initial_count, stage,
                   labelling, insertion, scraping>>

InitPreprocess ==
    /\ LabellingIdle
    /\ InsertIdle
    /\ ScrapeIdle
    /\ stage = "preprocessing"
    /\ preprocess_entry \in {"src/data_processing.py", "preprocess_reviews.py"}
    /\ raw \in SeqsUpTo(RawRows, MaxRaw)
    /\ preprocess_pc = "start"
    /\ preprocess_df = <<>>
    /\ initial_count = 0
    /\ cleaned = <<>>

NextPreprocess ==
    \/ PP_Load
    \/ PP_DropDuplicates
    \/ PP_DropEmpty
    \/ PP_Dates
    \/ PP_Ratings
    \/ PP_Save

SpecPreprocess == InitPreprocess /\ [][NextPreprocess]_vars

\* C26: every record of the output of preprocess_reviews has a rating from
\* 1 to 5, whatever the raw file holds.
C26_RatingsFromOneToFive ==
    preprocess_pc = "done" =>
        \A i \in DOMAIN cleaned :
            /\ ~cleaned[i].rating.nan
            /\ cleaned[i].rating.n >= 1
            /\ cleaned[i].rating.n <= 5

\* C27: the output of preprocess_reviews is never larger than its input and
\* has no two records equal in review_text, rating, date, bank and source,
\* records that are equal only once their timestamps are reduced to a date
\* included.
C27_NoTwoIdenticalRecords ==
    preprocess_pc = "done" =>
        /\ Len(cleaned) <= Len(raw)
        /\ \A i, j \in DOMAIN cleaned : cleaned[i] = cleaned[j] => i = j

-----------------------------------------------------------------------------
\* scrape_bank_reviews of scrape_reviews.py (lines 12-39), of
\* scripts/task1_data_collection/scrape_reviews.py (lines 14-80) and of
\* src/data_processing.py (lines 31-75)

\* total=400, count=200 (batch_size = 200), max_attempts = 10
Total == 400
BatchSize == 200
MaxAttempts == 10

\* Calls of reviews(...) are counted up to this number.
FetchCap == 12

Root == "scrape_reviews.py"
Task1 == "scripts/task1_data_collection/scrape_reviews.py"
Module == "src/data_processing.py"

\* What the store can answer a call of reviews(...) with: an exception, or a
\* batch of at most count reviews and a continuation token or none.
Responses ==
    [raises : {TRUE}, size : {0}, token : {"None"}]
    \cup [raises : {FALSE}, size : {0, BatchSize \div 2, BatchSize},
          token : {"None", "token"}]

\* The test of the while statement: count < total (line 18),
\* len(all_reviews) < total and attempts < max_attempts (lines 23, 40).
continues(variant, n, tried) ==
    IF variant = Root THEN n < Total
    ELSE n < Total /\ tried < MaxAttempts

\* The while statement is reached: the loop goes on, or the function returns.
SB_While ==
    /\ stage = "collection"
    /\ scrape_pc = "while"
    /\ scrape_pc' = IF continues(scraper, collected, attempts)
                    THEN "fetch" ELSE "returned"
    /\ UNCHANGED <<scraper, collected, token, batch, attempts, fetches, stage,
                   labelling, insertion, preprocessing>>

\* reviews(...) is called.  An exception leaves scrape_reviews.py (it has no
\* try); the other two leave the loop and return.
SB_Fetch ==
    /\ stage = "collection"
    /\ scrape_pc = "fetch"
    /\ fetches' = IF fetches < FetchCap THEN fetches + 1 ELSE fetches
    /\ \E response \in Responses :
          IF response.raises
          THEN /\ scrape_pc' = IF scraper = Root THEN "raised" ELSE "returned"
               /\ UNCHANGED <<batch, token>>
          ELSE /\ batch' = response.size
               /\ token' = response.token
               /\ scrape_pc' = "fetched"
    /\ UNCHANGED <<scraper, collected, attempts, stage, labelling, insertion,
                   preprocessing>>

\* The rest of the iteration.  scrape_reviews.py lines 28-34: the batch is
\* added, then the loop is left when there is no token.  The two others
\* (lines 44-66, 54-69): attempts is incremented, an empty batch leaves the
\* loop, the batch is added, and no token leaves the loop.
SB_Collect ==
    /\ stage = "collection"
    /\ scrape_pc = "fetched"
    /\ IF scraper = Root
       THEN /\ collected' = collected + batch
            /\ scrape_pc' = IF token = "None" THEN "returned" ELSE "while"
            /\ UNCHANGED attempts
       ELSE /\ attempts' = attempts + 1
            /\ IF batch = 0
               THEN /\ scrape_pc' = "returned"
                    /\ UNCHANGED collected
               ELSE /\ collected' = collected + batch
                    /\ scrape_pc' = IF token = "None" THEN "returned"
                                    ELSE "while"
    /\ UNCHANGED <<scraper, token, batch, fetches, stage, labelling, insertion,
                   preprocessing>>

InitScrape ==
    /\ LabellingIdle
    /\ InsertIdle
    /\ PreprocessIdle
    /\ stage = "collection"
    /\ scraper \in {Root, Task1, Module}
    /\ scrape_pc = "while"
    /\ collected = 0
    /\ token = "None"
    /\ batch = 0
    /\ attempts = 0
    /\ fetches = 0

NextScrape == SB_While \/ SB_Fetch \/ SB_Collect

\* The interpreter goes on executing a call that has not returned.
SpecScrape == InitScrape /\ [][NextScrape]_vars /\ WF_vars(NextScrape)

\* C30: in each of the three implementations the call of scrape_bank_reviews
\* ends, whatever the store answers, and the implementations with
\* max_attempts call reviews(...) at most 10 times.
C30_PaginationTerminates ==
    /\ <>(scrape_pc \in {"returned", "raised"})
    /\ [](scraper # Root => fetches <= MaxAttempts)

====
